---- MODULE Spec2Model ----
(***************************************************************************)
(* Verification model of the investment-analysis repository.               *)
(*                                                                         *)
(* Three state machines share the variables below:                         *)
(*   SpecStock  - the score builder (_calculate_stock_score) and the       *)
(*                single-stock analysis (_analyze_single_stock) applied to *)
(*                bounded sets of price histories, fundamentals and        *)
(*                strategies;                                              *)
(*   SpecScreen - the batch screening loop (_dynamic_stock_screening and   *)
(*                _screen_stock_batch) over the market universe;           *)
(*   Spec       - one analysis run of analyze_complete_flow.               *)
(*                                                                         *)
(* Units: prices are integers; volumes are counted in units of 100 000     *)
(* shares (1e6 = 10); market capitalisation in units of 1e8 USD (1e9 = 10);*)
(* ratios that yfinance reports as fractions (revenueGrowth, profitMargins,*)
(* returnOnEquity) are stored in hundredths, so that the code's "* 100"    *)
(* yields the stored integer.  Comparisons on floating-point quotients are *)
(* modelled by the equivalent exact integer cross-multiplication.          *)
(***************************************************************************)
EXTENDS Integers, Sequences, FiniteSets, TLC

VARIABLES
    provider,       \* the market-data provider's answer for the analysed symbol
    strategy,       \* the strategy mapping handed to the screening functions
    scores,         \* last result of _calculate_stock_score
    stock_data,     \* last result of _analyze_single_stock
    market_universe,    \* self.market_universe
    pattern,            \* the market data of the run: profile names, repeated over the symbols
    screen_pc,          \* position inside _dynamic_stock_screening
    batch_index,        \* loop variable i of the batch loop
    selected_stocks,    \* accumulator selected_stocks
    screening_details,  \* accumulator screening_details
    last_batch,         \* symbols and result of the last _screen_stock_batch call
    screening_result,   \* what _dynamic_stock_screening returned
    pc,                 \* next statement of analyze_complete_flow
    layer1_data,        \* what Layer1Collector.collect_all_data gave in this run
    layer1_result,
    investment_strategy,
    layer2_result,
    candidate_stocks,   \* the candidates Layer 3 analysed
    layer3_result,
    layer4_result,
    result,             \* what analyze_complete_flow returned
    layer_log,          \* start and return events of the layers, in order
    raised_layers,      \* layers whose computation raised in this run
    escaped,            \* the statement whose exception reached the outer handler
    technical_signals,  \* the signal Layer 3 drew for each candidate it analysed
    \* --- the web application (src/app.py) ---
    latest_layer_data,  \* latest_layer1_data .. latest_layer3_data, by layer number
    data_lock,          \* the handler holding data_lock, or None
    request,            \* per handler: the request it serves and where it stands
    last_stored,        \* history: per layer, the payload of the last store, or "none"
    \* --- LSTMStockPredictor.generate_trading_signal ---
    lstm_current_price,      \* the last close, in price units
    lstm_predicted_price,    \* the predicted next close, in price units
    trading_signal,     \* what generate_trading_signal answered, or Unset
    \* --- Layer3Collector.generate_trading_signals ---
    indicators,         \* the indicators mapping handed to the function
    support_resistance, \* the support/resistance mapping handed to the function
    trading_signals,    \* what generate_trading_signals answered, or Unset
    \* --- the indicator computations ---
    price_data,         \* the price series handed to the indicator computations
    technical_indicators, \* what _calculate_comprehensive_technical_indicators did, or Unset
    \* --- the technical stages over a list of symbols ---
    shortlist,          \* the selected_stocks handed to _analyze_technical_signals
    symbol_outcomes,    \* per symbol: what fetching and analysing it does
    layer3_stage,       \* what _analyze_technical_signals answered, or Unset
    technical_report,   \* what get_technical_analysis answered, or Unset
    \* --- BaseScraper.get_page ---
    fetch_pc,           \* idle, attempt, backoff, selenium, done
    fetch_url,          \* the page asked for
    use_selenium,       \* the use_selenium argument
    selenium_available, \* SELENIUM_AVAILABLE, fixed when the module is imported
    attempts,           \* the outcomes of the attempts made, in order
    fetched,            \* what get_page returned, or Unset
    \* --- one LSTMStockPredictor instance ---
    lstm_model,         \* self.model: "None", "built", "trained" or "loaded"
    lstm_scaler,        \* self.scaler: "fresh", "fitted" or "loaded"
    calls               \* the calls made on the instance and how each ended

stockVars  == <<provider, strategy, scores, stock_data>>
screenVars == <<market_universe, pattern, screen_pc, batch_index, selected_stocks,
                screening_details, last_batch, screening_result>>
runVars    == <<pc, layer1_data, layer1_result, investment_strategy, layer2_result,
                candidate_stocks, layer3_result, layer4_result, result, layer_log,
                raised_layers, escaped, technical_signals>>
serviceVars == <<latest_layer_data, data_lock, request, last_stored>>
lstmVars   == <<lstm_current_price, lstm_predicted_price, trading_signal>>
signalVars == <<indicators, support_resistance, trading_signals>>
indicVars  == <<price_data, technical_indicators>>
techVars   == <<shortlist, symbol_outcomes, layer3_stage, technical_report>>
fetchVars  == <<fetch_pc, fetch_url, use_selenium, selenium_available, attempts, fetched>>
predictorVars == <<lstm_model, lstm_scaler, calls>>
laterVars  == <<techVars, fetchVars, predictorVars>>
extraVars  == <<serviceVars, lstmVars, signalVars, indicVars, laterVars>>
vars == <<stockVars, screenVars, runVars, extraVars>>

(***************************************************************************)
(* Python values                                                           *)
(***************************************************************************)
None == [kind |-> "None"]
Unset == [kind |-> "unset"]

\* dict.get(key, default)
get(d, k, default) == IF k \in DOMAIN d THEN d[k] ELSE default

RECURSIVE SumTo(_, _, _)
\* sum of f[i] for i in lo..hi
SumTo(f, lo, hi) == IF lo > hi THEN 0 ELSE f[hi] + SumTo(f, lo, hi - 1)

Max2(a, b) == IF a >= b THEN a ELSE b
Min2(a, b) == IF a <= b THEN a ELSE b

(***************************************************************************)
(* Price histories.  A history is a sequence of bars [Close, Volume]; the  *)
(* provider's answers are drawn from a parametrised family: a linear trend *)
(* with a zigzag, and a volume level with an optional spike on the last    *)
(* five bars.                                                              *)
(***************************************************************************)
BasePrice == 500

History(h) ==
    [i \in 1..h.len |->
        [Close  |-> BasePrice + h.slope * i + h.amp * (i % 2),
         Volume |-> IF i > h.len - 5 THEN h.vol * h.spike ELSE h.vol]]

CloseOf(hist)  == [i \in 1..Len(hist) |-> hist[i].Close]
VolumeOf(hist) == [i \in 1..Len(hist) |-> hist[i].Volume]

\* hist['Close'].iloc[-k]
iloc(hist, k) == hist[Len(hist) - k + 1].Close

(***************************************************************************)
(* _build_screening_criteria                                               *)
(***************************************************************************)
_build_screening_criteria(strategy_type, risk_level) ==
    LET base_criteria == [min_market_cap |-> 10, min_volume |-> 10, max_pe_ratio |-> 30]
    IN  CASE strategy_type = "growth" ->
                [min_market_cap |-> 10, min_volume |-> 10, max_pe_ratio |-> 50,
                 min_revenue_growth |-> 15]
          [] strategy_type = "value" ->
                [min_market_cap |-> 10, min_volume |-> 10, max_pe_ratio |-> 20]
          [] strategy_type = "defensive" ->
                [min_market_cap |-> 100, min_volume |-> 10, max_pe_ratio |-> 25]
          [] OTHER -> base_criteria

(***************************************************************************)
(* _calculate_technical_score                                              *)
(***************************************************************************)
\* delta = Close.diff(); the first delta is NaN and .where(cond, 0) turns it into 0
delta(hist, i) == IF i = 1 THEN 0 ELSE hist[i].Close - hist[i - 1].Close

\* rolling(window=14) sums of gains and losses ending at the last bar
gain14(hist) ==
    SumTo([i \in 1..Len(hist) |-> Max2(delta(hist, i), 0)], Len(hist) - 13, Len(hist))
loss14(hist) ==
    SumTo([i \in 1..Len(hist) |-> Max2(0 - delta(hist, i), 0)], Len(hist) - 13, Len(hist))

\* current_rsi as the fraction num/den, or NaN.
\* rsi = 100 - 100/(1 + gain/loss) = 100*gain/(gain+loss); gain/0 = inf gives 100,
\* 0/0 = NaN; fewer than 14 bars leave the rolling mean NaN; an empty series gives 50.
current_rsi(hist) ==
    IF Len(hist) = 0 THEN [nan |-> FALSE, num |-> 50, den |-> 1]
    ELSE IF Len(hist) < 14 THEN [nan |-> TRUE, num |-> 0, den |-> 1]
    ELSE LET g == gain14(hist)
             l == loss14(hist)
         IN  IF g = 0 /\ l = 0 THEN [nan |-> TRUE, num |-> 0, den |-> 1]
             ELSE [nan |-> FALSE, num |-> 100 * g, den |-> g + l]

\* lo <= rsi <= hi; every comparison with NaN is false
RsiBetween(rsi, lo, hi) ==
    /\ ~rsi.nan
    /\ lo * rsi.den <= rsi.num
    /\ rsi.num <= hi * rsi.den

RsiPoints(hist) ==
    LET rsi == current_rsi(hist)
    IN  IF RsiBetween(rsi, 30, 70) THEN 8
        ELSE IF RsiBetween(rsi, 20, 80) THEN 5
        ELSE 0

\* price > ma20 > ma50 gives 10, price > ma20 gives 5; needs 50 bars
MovingAveragePoints(hist) ==
    IF Len(hist) >= 50
    THEN LET n       == Len(hist)
             sum20   == SumTo(CloseOf(hist), n - 19, n)
             sum50   == SumTo(CloseOf(hist), n - 49, n)
             current_price == iloc(hist, 1)
         IN  IF 20 * current_price > sum20 /\ 50 * sum20 > 20 * sum50 THEN 10
             ELSE IF 20 * current_price > sum20 THEN 5
             ELSE 0
    ELSE 0

\* recent_volume > volume_ma.iloc[-1] * 1.2; the 20-bar mean is NaN below 20 bars
VolumePoints(hist) ==
    LET n == Len(hist)
    IN  IF n >= 20
        THEN LET sum5  == SumTo(VolumeOf(hist), n - 4, n)
                 sum20 == SumTo(VolumeOf(hist), n - 19, n)
             IN  IF sum5 * 20 * 10 > sum20 * 5 * 12 THEN 7 ELSE 0
        ELSE 0

\* volume_ma.iloc[-1] raises IndexError on an empty series: except -> return 0
_calculate_technical_score(hist) ==
    IF Len(hist) = 0 THEN 0
    ELSE RsiPoints(hist) + MovingAveragePoints(hist) + VolumePoints(hist)

(***************************************************************************)
(* _calculate_quality_score                                                *)
(***************************************************************************)
\* info.get(k, 0) * 100 if info.get(k) else 0
Percent(info, k) == IF get(info, k, 0) # 0 THEN get(info, k, 0) ELSE 0

_calculate_quality_score(info) ==
    LET roe == Percent(info, "returnOnEquity")
        debt_to_equity == get(info, "debtToEquity", 100)
        roePts  == IF roe > 15 THEN 5 ELSE IF roe > 10 THEN 3 ELSE 0
        debtPts == IF debt_to_equity < 30 THEN 5 ELSE IF debt_to_equity < 60 THEN 3 ELSE 0
    IN  roePts + debtPts

(***************************************************************************)
(* _calculate_stock_score                                                  *)
(***************************************************************************)
\* returns over k bars compared with pct percent: ((last - prev)/prev)*100 > pct
ReturnAbove(hist, k, pct) ==
    /\ Len(hist) >= k
    /\ (iloc(hist, 1) - iloc(hist, k)) * 100 > pct * iloc(hist, k)

MomentumScore(hist) ==
    LET m1 == IF ReturnAbove(hist, 21, 10) THEN 15
              ELSE IF ReturnAbove(hist, 21, 5) THEN 10
              ELSE IF ReturnAbove(hist, 21, 0) THEN 5
              ELSE 0
        w1 == IF ReturnAbove(hist, 5, 3) THEN 10
              ELSE IF ReturnAbove(hist, 5, 0) THEN 5
              ELSE 0
    IN  Min2(m1 + w1, 25)

\* variant: a growth equal to a threshold earns that threshold's tier
FundamentalScore_inclusive(info, criteria) ==
    LET pe_ratio       == get(info, "trailingPE", 0)
        revenue_growth == Percent(info, "revenueGrowth")
        profit_margin  == Percent(info, "profitMargins")
        max_pe         == get(criteria, "max_pe_ratio", 30)
        min_growth     == get(criteria, "min_revenue_growth", 5)
        pePts == IF 0 < pe_ratio /\ 2 * pe_ratio < max_pe THEN 10
                 ELSE IF 0 < pe_ratio /\ pe_ratio < max_pe THEN 5
                 ELSE 0
        growthPts == IF revenue_growth >= min_growth * 2 THEN 10
                     ELSE IF revenue_growth >= min_growth THEN 5
                     ELSE 0
        marginPts == IF profit_margin > 20 THEN 10
                     ELSE IF profit_margin > 10 THEN 5
                     ELSE 0
    IN  Min2(pePts + growthPts + marginPts, 30)

FundamentalScore(info, criteria) ==
    LET pe_ratio       == get(info, "trailingPE", 0)
        revenue_growth == Percent(info, "revenueGrowth")
        profit_margin  == Percent(info, "profitMargins")
        max_pe         == get(criteria, "max_pe_ratio", 30)
        min_growth     == get(criteria, "min_revenue_growth", 5)
        pePts == IF 0 < pe_ratio /\ 2 * pe_ratio < max_pe THEN 10
                 ELSE IF 0 < pe_ratio /\ pe_ratio < max_pe THEN 5
                 ELSE 0
        growthPts == IF revenue_growth > min_growth * 2 THEN 10
                     ELSE IF revenue_growth > min_growth THEN 5
                     ELSE 0
        marginPts == IF profit_margin > 20 THEN 10
                     ELSE IF profit_margin > 10 THEN 5
                     ELSE 0
    IN  Min2(pePts + growthPts + marginPts, 30)

\* avg_volume = hist['Volume'].mean() compared with a level: sum > level * n
\* (the mean of an empty series is NaN, every comparison false)
AvgVolumeAbove(hist, level) ==
    /\ Len(hist) > 0
    /\ SumTo(VolumeOf(hist), 1, Len(hist)) > level * Len(hist)

\* variant: the top liquidity tier awards 15 points
LiquidityScore_tier15(hist) ==
    IF AvgVolumeAbove(hist, 50) THEN 15
    ELSE IF AvgVolumeAbove(hist, 20) THEN 7
    ELSE IF AvgVolumeAbove(hist, 10) THEN 5
    ELSE 0

LiquidityScore(hist) ==
    IF AvgVolumeAbove(hist, 50) THEN 10
    ELSE IF AvgVolumeAbove(hist, 20) THEN 7
    ELSE IF AvgVolumeAbove(hist, 10) THEN 5
    ELSE 0

_calculate_stock_score(hist, info, criteria, strat) ==
    [momentum     |-> MomentumScore(hist),
     fundamentals |-> FundamentalScore(info, criteria),
     technical    |-> Min2(_calculate_technical_score(hist), 25),
     liquidity    |-> LiquidityScore(hist),
     quality      |-> Min2(_calculate_quality_score(info), 10)]

\* sum(score_breakdown.values())
SumScores(sb) ==
    sb.momentum + sb.fundamentals + sb.technical + sb.liquidity + sb.quality

(***************************************************************************)
(* _analyze_single_stock                                                   *)
(***************************************************************************)
pass_threshold == 60

\* market_cap < criteria.get('min_market_cap', 0)
BelowMinMarketCap(info, criteria) ==
    get(info, "marketCap", 0) < get(criteria, "min_market_cap", 0)

\* variant: the volume minimum is not enforced
BelowMinVolume_off(hist, criteria) == FALSE

\* avg_volume < criteria.get('min_volume', 0)
BelowMinVolume(hist, criteria) ==
    SumTo(VolumeOf(hist), 1, Len(hist)) < get(criteria, "min_volume", 0) * Len(hist)

\* variant: total_score is a re-weighted composite of the sub-scores
StockRecord_reweighted(symbol, hist, info, criteria, strat) ==
    LET score_breakdown == _calculate_stock_score(hist, info, criteria, strat)
        total_score     == (2 * score_breakdown.momentum + score_breakdown.fundamentals
                            + score_breakdown.technical + score_breakdown.liquidity
                            + score_breakdown.quality) \div 2
    IN  [kind             |-> "stock",
         symbol           |-> symbol,
         market_cap       |-> get(info, "marketCap", 0),
         total_score      |-> total_score,
         score_breakdown  |-> score_breakdown,
         passes_screening |-> total_score >= pass_threshold,
         key_metrics      |-> [market_cap |-> get(info, "marketCap", 0),
                               volume_sum |-> SumTo(VolumeOf(hist), 1, Len(hist)),
                               volume_n   |-> Len(hist)]]

\* variant: the threshold comparison is strict
StockRecord_strict(symbol, hist, info, criteria, strat) ==
    LET score_breakdown == _calculate_stock_score(hist, info, criteria, strat)
        total_score     == SumScores(score_breakdown)
    IN  [kind             |-> "stock",
         symbol           |-> symbol,
         market_cap       |-> get(info, "marketCap", 0),
         total_score      |-> total_score,
         score_breakdown  |-> score_breakdown,
         passes_screening |-> total_score > pass_threshold,
         key_metrics      |-> [market_cap |-> get(info, "marketCap", 0),
                               volume_sum |-> SumTo(VolumeOf(hist), 1, Len(hist)),
                               volume_n   |-> Len(hist)]]

\* The candidate mapping; round(total_score, 1) leaves the integer sum unchanged.
StockRecord(symbol, hist, info, criteria, strat) ==
    LET score_breakdown == _calculate_stock_score(hist, info, criteria, strat)
        total_score     == SumScores(score_breakdown)
    IN  [kind             |-> "stock",
         symbol           |-> symbol,
         market_cap       |-> get(info, "marketCap", 0),
         total_score      |-> total_score,
         score_breakdown  |-> score_breakdown,
         passes_screening |-> total_score >= pass_threshold,
         key_metrics      |-> [market_cap |-> get(info, "marketCap", 0),
                               volume_sum |-> SumTo(VolumeOf(hist), 1, Len(hist)),
                               volume_n   |-> Len(hist)]]

\* answer is the provider's response for the symbol: it raises, or gives
\* stock.info and stock.history(period="3mo").  Every exception inside the
\* function is caught and turned into None; the helpers that build the
\* selection reasons and the thesis read strategy['primary_focus'] and raise
\* KeyError when the strategy has no such key.
_analyze_single_stock(symbol, answer, criteria, strat) ==
    LET hist == History(answer.h)
        info == answer.info
    IN  IF answer.raises THEN None
        ELSE IF Len(hist) < 20 THEN None
        ELSE IF BelowMinMarketCap(info, criteria) THEN None
        ELSE IF BelowMinVolume(hist, criteria) THEN None
        ELSE IF "primary_focus" \notin DOMAIN strat THEN None
        ELSE StockRecord(symbol, hist, info, criteria, strat)

(***************************************************************************)
(* Inputs of the score builder and of the single-stock analysis            *)
(***************************************************************************)
HistLens   == {0, 4, 5, 19, 20, 21, 50}
HistShapes == {<<0, 0>>, <<0 - 3, 0>>, <<1, 5>>, <<2, 4>>, <<4, 6>>, <<8, 1>>}
HistVols   == {5, 10, 30, 60}
HistSpikes == {1, 2}

HistParams ==
    {[len |-> n, slope |-> sh[1], amp |-> sh[2], vol |-> v, spike |-> k] :
        n \in HistLens, sh \in HistShapes, v \in HistVols, k \in HistSpikes}

Absent == 0 - 1

\* a fundamentals mapping in which the keys chosen as Absent are missing
MkInfo(mc, pe, rg, pm, roe, de) ==
    LET all == [marketCap |-> mc, trailingPE |-> pe, revenueGrowth |-> rg,
                profitMargins |-> pm, returnOnEquity |-> roe, debtToEquity |-> de]
    IN  [k \in {x \in DOMAIN all : all[x] # Absent} |-> all[k]]

\* <<profitMargins, returnOnEquity, debtToEquity>>
ProfitProfiles ==
    {<<Absent, Absent, Absent>>, <<15, 12, 50>>, <<25, 20, 20>>, <<25, Absent, 20>>}

InfoSet ==
    {MkInfo(mc, pe, rg, q[1], q[2], q[3]) :
        mc \in {Absent, 10, 200}, pe \in {Absent, 10, 40}, rg \in {Absent, 10, 15, 20},
        q \in ProfitProfiles}

ProviderAnswers ==
    {[raises |-> r, h |-> h, info |-> i] :
        r \in BOOLEAN, h \in HistParams, i \in InfoSet}

\* a strategy mapping handed in by the caller; primary_focus may be missing
MkStrategy(focus, strategy_type) ==
    LET crit == [screening_criteria |-> _build_screening_criteria(strategy_type, "medium")]
    IN  IF focus = "absent" THEN crit
        ELSE [primary_focus |-> focus] @@ crit

StockStrategies ==
    {MkStrategy("growth", "growth"), MkStrategy("value", "defensive"),
     MkStrategy("absent", "balanced")}

\* the screening machine before any call
ScreenIdle ==
    /\ market_universe = <<>>
    /\ pattern = <<>>
    /\ screen_pc = "idle"
    /\ batch_index = 0
    /\ selected_stocks = <<>>
    /\ screening_details = <<>>
    /\ last_batch = Unset
    /\ screening_result = Unset

\* the orchestrator before any request
RunIdle ==
    /\ pc = "idle"
    /\ layer1_data = Unset
    /\ layer1_result = Unset
    /\ investment_strategy = Unset
    /\ layer2_result = Unset
    /\ candidate_stocks = <<>>
    /\ layer3_result = Unset
    /\ layer4_result = Unset
    /\ result = Unset
    /\ layer_log = <<>>
    /\ raised_layers = {}
    /\ escaped = "none"
    /\ technical_signals = <<>>

\* the score builder before any input
StockIdle ==
    /\ provider = Unset
    /\ strategy = Unset
    /\ scores = Unset
    /\ stock_data = Unset

\* the three latest_layerN_data globals of the web application
Layers == {1, 2, 3}

\* number of request handlers running at the same time
MaxHandlers == 2

Handlers == 1..MaxHandlers

\* data_lock when no handler holds it
Unlocked == 0

\* no collect request stored a payload yet
NothingStored == "none"

\* a handler thread that serves no request
IdleRequest == [pc |-> "idle"]

\* the web application after the module was loaded (app.py lines 49-52)
ServiceIdle ==
    /\ latest_layer_data = [layer \in Layers |-> None]
    /\ data_lock = Unlocked
    /\ request = [h \in Handlers |-> IdleRequest]
    /\ last_stored = [layer \in Layers |-> NothingStored]

\* no prediction was classified yet
LstmIdle ==
    /\ lstm_current_price = 0
    /\ lstm_predicted_price = 0
    /\ trading_signal = Unset

\* no indicator set was classified yet
SignalIdle ==
    /\ indicators = Unset
    /\ support_resistance = Unset
    /\ trading_signals = Unset

\* no indicator was computed yet
IndicIdle ==
    /\ price_data = Unset
    /\ technical_indicators = Unset

\* no list of symbols was analysed yet
TechIdle ==
    /\ shortlist = <<>>
    /\ symbol_outcomes = Unset
    /\ layer3_stage = Unset
    /\ technical_report = Unset

\* no page was asked for yet
FetchIdle ==
    /\ fetch_pc = "idle"
    /\ fetch_url = "none"
    /\ use_selenium = FALSE
    /\ selenium_available = FALSE
    /\ attempts = <<>>
    /\ fetched = Unset

\* LSTMStockPredictor.__init__
PredictorIdle ==
    /\ lstm_model = "None"
    /\ lstm_scaler = "fresh"
    /\ calls = <<>>

LaterIdle == TechIdle /\ FetchIdle /\ PredictorIdle

ExtraIdle == ServiceIdle /\ LstmIdle /\ SignalIdle /\ IndicIdle /\ LaterIdle

(***************************************************************************)
(* SpecStock: the score builder and the single-stock analysis on one input *)
(***************************************************************************)
InitStock ==
    /\ provider \in {a \in ProviderAnswers : ~a.raises \/ a.h.len = 20}
    /\ strategy \in StockStrategies
    /\ scores = Unset
    /\ stock_data = Unset
    /\ ScreenIdle
    /\ RunIdle
    /\ ExtraIdle

CalculateStockScore ==
    /\ scores = Unset
    /\ scores' = [kind |-> "scores",
                  sb |-> _calculate_stock_score(History(provider.h), provider.info,
                                                strategy.screening_criteria, strategy)]
    /\ UNCHANGED <<provider, strategy, stock_data, screenVars, runVars, extraVars>>

AnalyzeSingleStock ==
    /\ stock_data = Unset
    /\ stock_data' = _analyze_single_stock("AAPL", provider,
                                           strategy.screening_criteria, strategy)
    /\ UNCHANGED <<provider, strategy, scores, screenVars, runVars, extraVars>>

NextStock == CalculateStockScore \/ AnalyzeSingleStock

SpecStock == InitStock /\ [][NextStock]_vars

(***************************************************************************)
(* Properties of the score builder and the single-stock analysis           *)
(***************************************************************************)
InBounds(sb) ==
    /\ 0 <= sb.momentum     /\ sb.momentum     <= 25
    /\ 0 <= sb.fundamentals /\ sb.fundamentals <= 30
    /\ 0 <= sb.technical    /\ sb.technical    <= 25
    /\ 0 <= sb.liquidity    /\ sb.liquidity    <= 10
    /\ 0 <= sb.quality      /\ sb.quality      <= 10

\* C1: whatever the price history, the fundamentals mapping and the criteria,
\* the score builder returns five sub-scores with 0 <= momentum <= 25,
\* 0 <= fundamentals <= 30, 0 <= technical <= 25, 0 <= liquidity <= 10 and
\* 0 <= quality <= 10.
C1_SubScoresBounded ==
    /\ scores.kind = "scores" => InBounds(scores.sb)
    /\ stock_data.kind = "stock" => InBounds(stock_data.score_breakdown)

\* the score builder has returned a breakdown in which four caps are attained
C1_Witness ==
    /\ scores.kind = "scores"
    /\ scores.sb.momentum = 25
    /\ scores.sb.fundamentals = 30
    /\ scores.sb.liquidity = 10
    /\ scores.sb.quality = 10
    /\ scores.sb.technical > 0

\* C2: the total_score of every screened candidate is the plain sum of its
\* five sub-scores and lies in 0..100.
C2_TotalIsPlainSum ==
    stock_data.kind = "stock" =>
        /\ stock_data.total_score =
               stock_data.score_breakdown.momentum
             + stock_data.score_breakdown.fundamentals
             + stock_data.score_breakdown.technical
             + stock_data.score_breakdown.liquidity
             + stock_data.score_breakdown.quality
        /\ 0 <= stock_data.total_score
        /\ stock_data.total_score <= 100

\* a candidate whose five sub-scores are all positive and differ in weight
C2_Witness ==
    /\ stock_data.kind = "stock"
    /\ stock_data.score_breakdown.momentum = 25
    /\ stock_data.score_breakdown.fundamentals > 0
    /\ stock_data.score_breakdown.technical > 0
    /\ stock_data.score_breakdown.liquidity > 0
    /\ stock_data.score_breakdown.quality > 0
    /\ stock_data.total_score > 80

\* C3: passes_screening is true exactly when total_score is at least 60.
C3_PassesIffAtLeast60 ==
    stock_data.kind = "stock" =>
        (stock_data.passes_screening <=> stock_data.total_score >= 60)

\* a candidate that sits exactly on the threshold and passes
C3_Witness ==
    /\ stock_data.kind = "stock"
    /\ stock_data.total_score = 60
    /\ stock_data.passes_screening

(***************************************************************************)
(* _build_market_universe                                                  *)
(***************************************************************************)
tech_stocks ==
    <<"AAPL", "MSFT", "GOOGL", "GOOG", "AMZN", "TSLA", "NVDA", "META",
      "NFLX", "AMD", "CRM", "ADBE", "ORCL", "INTC", "CSCO", "AVGO",
      "QCOM", "TXN", "AMAT", "LRCX", "KLAC", "MRVL", "FTNT", "PANW">>

financial_stocks ==
    <<"JPM", "BAC", "WFC", "GS", "MS", "C", "BLK", "SCHW", "AXP", "USB",
      "PNC", "TFC", "COF", "BK", "STT", "NTRS", "RF", "CFG", "KEY", "FITB">>

healthcare_stocks ==
    <<"JNJ", "PFE", "UNH", "ABBV", "MRK", "TMO", "ABT", "DHR", "BMY", "LLY",
      "AMGN", "GILD", "ISRG", "VRTX", "REGN", "BIIB", "ILMN", "MRNA", "ZTS", "CVS">>

consumer_stocks ==
    <<"AMZN", "TSLA", "HD", "MCD", "NKE", "SBUX", "TGT", "LOW", "TJX", "COST",
      "WMT", "PG", "KO", "PEP", "CL", "KMB", "GIS", "K", "CPB", "CAG">>

industrial_stocks ==
    <<"BA", "CAT", "GE", "MMM", "HON", "UPS", "RTX", "LMT", "NOC", "GD",
      "FDX", "UNP", "CSX", "NSC", "DAL", "UAL", "AAL", "LUV", "JBLU", "ALK">>

energy_stocks ==
    <<"XOM", "CVX", "COP", "EOG", "SLB", "PSX", "VLO", "MPC", "KMI", "OKE",
      "WMB", "EPD", "ET", "MPLX", "PAA", "EQT", "DVN", "FANG", "MRO", "APA">>

SeqToSet(q) == {q[i] : i \in 1..Len(q)}

RECURSIVE Dedup(_, _)
\* the elements of q in order of first occurrence, appended to acc
Dedup(q, acc) ==
    IF q = <<>> THEN acc
    ELSE IF Head(q) \in SeqToSet(acc) THEN Dedup(Tail(q), acc)
    ELSE Dedup(Tail(q), Append(acc, Head(q)))

Reverse(q) == [i \in 1..Len(q) |-> q[Len(q) + 1 - i]]

\* q[:n]
Take(q, n) == SubSeq(q, 1, Min2(n, Len(q)))

\* list(set(...)): the distinct symbols; the iteration order of a Python set
\* of strings is not fixed, two of the possible orders are modelled
all_stocks ==
    Dedup(tech_stocks \o financial_stocks \o healthcare_stocks \o
          consumer_stocks \o industrial_stocks \o energy_stocks, <<>>)

UniverseLimit == 100

_build_market_universe(reversed) ==
    Take(IF reversed THEN Reverse(all_stocks) ELSE all_stocks, UniverseLimit)

(***************************************************************************)
(* Market data of a screening run: named provider answers, assigned to the *)
(* symbols by repeating a short pattern over the symbol list.              *)
(***************************************************************************)
FullInfo(mc) == MkInfo(mc, 10, 40, 25, 20, 20)

Profiles ==
    [great    |-> [raises |-> FALSE,
                   h |-> [len |-> 50, slope |-> 8, amp |-> 1, vol |-> 60, spike |-> 2],
                   info |-> FullInfo(200)],
     good     |-> [raises |-> FALSE,
                   h |-> [len |-> 21, slope |-> 2, amp |-> 4, vol |-> 30, spike |-> 1],
                   info |-> FullInfo(200)],
     weak     |-> [raises |-> FALSE,
                   h |-> [len |-> 20, slope |-> 0, amp |-> 0, vol |-> 10, spike |-> 1],
                   info |-> MkInfo(10, Absent, Absent, Absent, Absent, Absent)],
     thin     |-> [raises |-> FALSE,
                   h |-> [len |-> 50, slope |-> 8, amp |-> 1, vol |-> 5, spike |-> 1],
                   info |-> FullInfo(200)],
     small    |-> [raises |-> FALSE,
                   h |-> [len |-> 50, slope |-> 8, amp |-> 1, vol |-> 60, spike |-> 2],
                   info |-> FullInfo(5)],
     failing  |-> [raises |-> TRUE,
                   h |-> [len |-> 0, slope |-> 0, amp |-> 0, vol |-> 0, spike |-> 1],
                   info |-> <<>>]]

ProfileNames == DOMAIN Profiles

MaxPattern == 2

Patterns == UNION {[1..n -> ProfileNames] : n \in 1..MaxPattern}

\* position of a symbol in all_stocks
SymbolIndex(symbol) == CHOOSE i \in 1..Len(all_stocks) : all_stocks[i] = symbol

\* yf.Ticker(symbol): what the provider answers for the symbol in this run
MarketData(pat, symbol) == Profiles[pat[((SymbolIndex(symbol) - 1) % Len(pat)) + 1]]

(***************************************************************************)
(* _screen_stock_batch                                                     *)
(***************************************************************************)
RECURSIVE _screen_stock_batch_abort(_, _, _, _)
\* variant: a provider failure ends the batch instead of skipping the symbol
_screen_stock_batch_abort(symbols, criteria, strat, pat) ==
    IF symbols = <<>> THEN [stocks |-> <<>>, details |-> <<>>]
    ELSE IF MarketData(pat, Head(symbols)).raises THEN [stocks |-> <<>>, details |-> <<>>]
    ELSE LET symbol == Head(symbols)
             data   == _analyze_single_stock(symbol, MarketData(pat, symbol), criteria, strat)
             rest   == _screen_stock_batch_abort(Tail(symbols), criteria, strat, pat)
             passed == data.kind = "stock" /\ data.passes_screening
         IN  [stocks  |-> IF passed THEN <<data>> \o rest.stocks ELSE rest.stocks,
              details |-> <<[symbol |-> symbol, screened |-> TRUE, passed |-> passed]>>
                          \o rest.details]

RECURSIVE _screen_stock_batch(_, _, _, _)
\* pat is the market data the provider serves during the call
_screen_stock_batch(symbols, criteria, strat, pat) ==
    IF symbols = <<>> THEN [stocks |-> <<>>, details |-> <<>>]
    ELSE LET symbol == Head(symbols)
             data   == _analyze_single_stock(symbol, MarketData(pat, symbol), criteria, strat)
             rest   == _screen_stock_batch(Tail(symbols), criteria, strat, pat)
             passed == data.kind = "stock" /\ data.passes_screening
         IN  [stocks  |-> IF passed THEN <<data>> \o rest.stocks ELSE rest.stocks,
              details |-> <<[symbol |-> symbol, screened |-> TRUE, passed |-> passed]>>
                          \o rest.details]

(***************************************************************************)
(* _get_fallback_stocks                                                    *)
(***************************************************************************)
FallbackEntry(symbol) == [symbol |-> symbol, name |-> symbol, total_score |-> 70]

\* called only with a strategy that has primary_focus
_get_fallback_stocks(strat) ==
    LET fallback == IF strat.primary_focus = "growth"
                        THEN <<"AAPL", "MSFT", "GOOGL", "AMZN", "TSLA">>
                    ELSE IF strat.primary_focus = "value"
                        THEN <<"JPM", "JNJ", "PG", "KO", "WMT">>
                    ELSE <<"AAPL", "MSFT", "JPM", "JNJ", "GOOGL">>
    IN  [kind             |-> "fallback",
         strategy_applied |-> strat.primary_focus,
         selected_stocks  |-> [i \in 1..Len(fallback) |-> FallbackEntry(fallback[i])],
         note             |-> "fallback list"]

(***************************************************************************)
(* _dynamic_stock_screening                                                *)
(***************************************************************************)
batch_size     == 10
EnoughSelected == 20
TopStocks      == 15

RECURSIVE InsertDesc(_, _)
\* insert x behind every element whose total_score is at least x's
InsertDesc(sorted, x) ==
    IF sorted = <<>> THEN <<x>>
    ELSE IF Head(sorted).total_score >= x.total_score
         THEN <<Head(sorted)>> \o InsertDesc(Tail(sorted), x)
         ELSE <<x>> \o sorted

\* variant: the list is left in screening order
SortDesc_unsorted(q, acc) == acc \o q

RECURSIVE SortDesc(_, _)
\* list.sort(key=total_score, reverse=True): stable, descending
SortDesc(q, acc) ==
    IF q = <<>> THEN acc ELSE SortDesc(Tail(q), InsertDesc(acc, Head(q)))

\* the strategies a caller hands in: with and without the two keys the
\* function reads (primary_focus, screening_criteria)
ScreenStrategies ==
    {MkStrategy("growth", "growth"), MkStrategy("value", "value"),
     MkStrategy("absent", "balanced"),
     [primary_focus |-> "growth"], [primary_focus |-> "value"],
     [primary_focus |-> "balanced"]}

InitScreen ==
    /\ provider = Unset
    /\ scores = Unset
    /\ stock_data = Unset
    /\ strategy \in ScreenStrategies
    /\ market_universe \in {_build_market_universe(FALSE), _build_market_universe(TRUE)}
    /\ pattern \in Patterns
    /\ screen_pc = "idle"
    /\ batch_index = 0
    /\ selected_stocks = <<>>
    /\ screening_details = <<>>
    /\ last_batch = Unset
    /\ screening_result = Unset
    /\ RunIdle
    /\ ExtraIdle

\* entry of _dynamic_stock_screening up to the loop.  Reading
\* strategy['primary_focus'] or strategy['screening_criteria'] raises KeyError
\* inside the try; the handler returns _get_fallback_stocks(strategy), which
\* itself raises KeyError to the caller when primary_focus is missing.
StartScreening ==
    /\ screen_pc = "idle"
    /\ IF "primary_focus" \notin DOMAIN strategy
       THEN /\ screen_pc' = "raised"
            /\ screening_result' = [kind |-> "KeyError"]
       ELSE IF "screening_criteria" \notin DOMAIN strategy
       THEN /\ screen_pc' = "returned"
            /\ screening_result' = _get_fallback_stocks(strategy)
       ELSE /\ screen_pc' = "loop"
            /\ screening_result' = screening_result
    /\ UNCHANGED <<extraVars, stockVars, runVars, market_universe, pattern, batch_index, selected_stocks,
                   screening_details, last_batch>>

\* one iteration of the batch loop, including the early exit
ScreenBatch ==
    /\ screen_pc = "loop"
    /\ LET batch == SubSeq(market_universe, batch_index + 1,
                           Min2(batch_index + batch_size, Len(market_universe)))
           batch_results == _screen_stock_batch(batch, strategy.screening_criteria,
                                                strategy, pattern)
           selected == selected_stocks \o batch_results.stocks
       IN  /\ last_batch' = [kind |-> "batch", symbols |-> batch,
                             stocks |-> batch_results.stocks,
                             details |-> batch_results.details]
           /\ selected_stocks' = selected
           /\ screening_details' = screening_details \o batch_results.details
           /\ IF Len(selected) >= EnoughSelected
                 \/ batch_index + batch_size >= Len(market_universe)
              THEN /\ screen_pc' = "sort"
                   /\ batch_index' = batch_index
              ELSE /\ screen_pc' = "loop"
                   /\ batch_index' = batch_index + batch_size
    /\ UNCHANGED <<extraVars, stockVars, runVars, market_universe, pattern, screening_result>>

\* sort by score, keep the first 15, return
FinishScreening ==
    /\ screen_pc = "sort"
    /\ LET sorted     == SortDesc(selected_stocks, <<>>)
           top_stocks == Take(sorted, TopStocks)
       IN  /\ selected_stocks' = sorted
           /\ screening_result' =
                 [kind               |-> "screened",
                  strategy_applied   |-> strategy.primary_focus,
                  screening_criteria |-> strategy.screening_criteria,
                  total_screened     |-> Len(screening_details),
                  selected_stocks    |-> top_stocks]
    /\ screen_pc' = "returned"
    /\ UNCHANGED <<extraVars, stockVars, runVars, market_universe, pattern, batch_index,
                   screening_details, last_batch>>

NextScreen == StartScreening \/ ScreenBatch \/ FinishScreening

SpecScreen == InitScreen /\ [][NextScreen]_vars

(***************************************************************************)
(* Properties of the screening loop                                        *)
(***************************************************************************)
SymbolsOf(q) == [i \in 1..Len(q) |-> q[i].symbol]

\* what analysing the symbol yields under the run's market data and strategy
Analysed(symbol) ==
    _analyze_single_stock(symbol, MarketData(pattern, symbol),
                          get(strategy, "screening_criteria", <<>>), strategy)

Passing(symbol) == Analysed(symbol).kind = "stock" /\ Analysed(symbol).passes_screening

\* C7: in a screening batch a failure while analysing one symbol skips only
\* that symbol: every symbol of the batch is still analysed (has its details
\* entry) and the returned stocks are exactly the batch's passing symbols, in
\* batch order.
C7_FailureSkipsOnlyThatSymbol ==
    last_batch.kind = "batch" =>
        /\ SymbolsOf(last_batch.details) = last_batch.symbols
        /\ SymbolsOf(last_batch.stocks) = SelectSeq(last_batch.symbols, Passing)

\* a batch in which the provider raised for one symbol and a later symbol of
\* the same batch was returned
C7_Witness ==
    /\ last_batch.kind = "batch"
    /\ \E i, j \in 1..Len(last_batch.symbols) :
          /\ i < j
          /\ MarketData(pattern, last_batch.symbols[i]).raises
          /\ \E k \in 1..Len(last_batch.stocks) :
                last_batch.stocks[k].symbol = last_batch.symbols[j]

MinMarketCap == get(get(strategy, "screening_criteria", <<>>), "min_market_cap", 0)
MinVolume    == get(get(strategy, "screening_criteria", <<>>), "min_volume", 0)

EntryPassedFilters(e) ==
    /\ "passes_screening" \in DOMAIN e
    /\ e.passes_screening
    /\ e.market_cap >= MinMarketCap
    /\ e.key_metrics.volume_sum >= MinVolume * e.key_metrics.volume_n

Returned == screening_result.kind \in {"screened", "fallback"}

\* C9 as stated: every entry of whatever selected_stocks Layer 2 returns has
\* passes_screening = true, market cap >= min_market_cap and average volume
\* >= min_volume.
C9_Original ==
    Returned =>
        \A i \in 1..Len(screening_result.selected_stocks) :
            EntryPassedFilters(screening_result.selected_stocks[i])

\* C9 amended: every entry of the selected_stocks produced by the screening
\* loop has passes_screening = true, market cap >= min_market_cap and average
\* volume >= min_volume (the entries of the hardcoded fallback list carry
\* only symbol, name and total_score).
C9_SelectedPassedFilters ==
    screening_result.kind = "screened" =>
        \A i \in 1..Len(screening_result.selected_stocks) :
            EntryPassedFilters(screening_result.selected_stocks[i])

\* the loop returned candidates and turned away a symbol whose score would
\* have passed but whose volume or market cap is below the minimum
C9_Witness ==
    /\ screening_result.kind = "screened"
    /\ Len(screening_result.selected_stocks) > 0
    /\ \E i \in 1..Len(screening_details) :
          LET s == screening_details[i].symbol
              a == MarketData(pattern, s)
          IN  /\ ~a.raises
              /\ \/ BelowMinVolume(History(a.h), strategy.screening_criteria)
                 \/ BelowMinMarketCap(a.info, strategy.screening_criteria)
              /\ StockRecord(s, History(a.h), a.info, strategy.screening_criteria,
                             strategy).passes_screening
              /\ ~screening_details[i].passed

NonIncreasing(q) ==
    \A i \in 1..Len(q) - 1 : q[i].total_score >= q[i + 1].total_score

\* no passing symbol of the set that is left out scores higher than a selected one
BestOf(symbols, selected) ==
    \A s \in symbols :
        (Passing(s) /\ s \notin SeqToSet(SymbolsOf(selected))) =>
            \A i \in 1..Len(selected) :
                Analysed(s).total_score <= selected[i].total_score

\* C10 as stated: selected_stocks has at most 15 entries in non-increasing
\* total_score order and holds the highest-scoring passing candidates of the
\* whole symbol universe.
C10_Original ==
    screening_result.kind = "screened" =>
        /\ Len(screening_result.selected_stocks) <= 15
        /\ NonIncreasing(screening_result.selected_stocks)
        /\ BestOf(SeqToSet(market_universe), screening_result.selected_stocks)

\* C10 amended: selected_stocks has at most 15 entries in non-increasing
\* total_score order; when it comes from the screening loop it holds the
\* highest-scoring passing candidates among the symbols of the batches that
\* were screened before the loop stopped (the loop stops after the batch that
\* brings the number of passing candidates to 20 or more).
C10_TopOfScreened ==
    Returned =>
        /\ Len(screening_result.selected_stocks) <= 15
        /\ NonIncreasing(screening_result.selected_stocks)
        /\ screening_result.kind = "screened" =>
              BestOf(SeqToSet(SymbolsOf(screening_details)),
                     screening_result.selected_stocks)

\* the loop stopped early, and the cut to 15 dropped passing candidates and
\* kept candidates of different scores
C10_Witness ==
    /\ screening_result.kind = "screened"
    /\ Len(screening_details) < Len(market_universe)
    /\ Len(selected_stocks) > 15
    /\ Len(screening_result.selected_stocks) = 15
    /\ screening_result.selected_stocks[1].total_score
          > screening_result.selected_stocks[15].total_score

(***************************************************************************)
(* Layer 1: _analyze_market_overview.  GDP growth, unemployment and        *)
(* inflation are in tenths of a percent (2.0 = 20).  Phase names:          *)
(* bull_mid, bull_late, bear, bear_recovery, sideways; trends: up, down,   *)
(* recovery, range; capital flows: in, out.                                *)
(***************************************************************************)
EmptyDict == [k \in {} |-> 0]

\* Layer1Collector.collect_all_data: it raises, or returns a mapping with the
\* keys timestamp, layer, data_sources and analysis
DataSources ==
    {EmptyDict,
     [fear_greed |-> [index_value |-> 75], fred |-> [gdp |-> [value |-> 28]]],
     [fear_greed |-> [index_value |-> 25], fred |-> [gdp |-> [value |-> 5]]]}

CollectorOutcomes ==
    {[raises |-> TRUE, results |-> EmptyDict]} \cup
    {[raises |-> FALSE,
      results |-> [layer |-> "Layer 1", data_sources |-> ds, analysis |-> EmptyDict]] :
        ds \in DataSources}

_analyze_market_sentiment(data) ==
    LET fear_greed      == get(data, "fear_greed", EmptyDict)
        sentiment_score == get(fear_greed, "value", 50)
    IN  [fear_greed_index  |-> sentiment_score,
         overall_sentiment |-> IF sentiment_score > 60 THEN "optimistic"
                               ELSE IF sentiment_score < 40 THEN "pessimistic"
                               ELSE "neutral"]

\* variant: missing economic figures are reported as zero
_analyze_economic_environment_zero(data) ==
    LET economic_data == get(data, "economic_data", EmptyDict)
    IN  [gdp_growth        |-> get(economic_data, "gdp_growth", 0),
         unemployment_rate |-> get(economic_data, "unemployment_rate", 0),
         inflation_rate    |-> get(economic_data, "inflation_rate", 0)]

_analyze_economic_environment(data) ==
    LET economic_data == get(data, "economic_data", EmptyDict)
    IN  [gdp_growth        |-> get(economic_data, "gdp_growth", 20),
         unemployment_rate |-> get(economic_data, "unemployment_rate", 40),
         inflation_rate    |-> get(economic_data, "inflation_rate", 30)]

\* overall_flow is drawn at random
_analyze_capital_flows(data, flow) == [overall_flow |-> flow]

_determine_comprehensive_market_phase(sentiment, economic, flows) ==
    LET sentiment_score == get(sentiment, "fear_greed_index", 50)
        gdp_growth      == get(economic, "gdp_growth", 20)
        flow_direction  == get(flows, "overall_flow", "neutral")
    IN  IF sentiment_score > 70 /\ gdp_growth > 30 /\ flow_direction = "in"
            THEN [phase |-> "bull_late", trend |-> "up", risk_level |-> "high"]
        ELSE IF sentiment_score > 50 /\ gdp_growth > 20
            THEN [phase |-> "bull_mid", trend |-> "up", risk_level |-> "medium"]
        ELSE IF sentiment_score < 30 /\ gdp_growth < 10
            THEN [phase |-> "bear", trend |-> "down", risk_level |-> "high"]
        ELSE IF sentiment_score < 50 /\ gdp_growth < 20
            THEN [phase |-> "bear_recovery", trend |-> "recovery", risk_level |-> "medium"]
        ELSE [phase |-> "sideways", trend |-> "range", risk_level |-> "medium"]

_calculate_market_confidence(sentiment, economic) ==
    LET fear_greed == get(sentiment, "fear_greed_index", 50)
        gdp_growth == get(economic, "gdp_growth", 25)
        c1 == IF 40 <= fear_greed /\ fear_greed <= 70 THEN 10
              ELSE IF fear_greed > 80 \/ fear_greed < 20 THEN 0 - 15
              ELSE 0
        c2 == IF gdp_growth > 30 THEN 15 ELSE IF gdp_growth < 10 THEN 0 - 20 ELSE 0
    IN  Max2(0, Min2(100, 50 + c1 + c2))

_get_fallback_market_overview ==
    [market_sentiment     |-> [fear_greed_index |-> 50, sentiment_label |-> "neutral"],
     economic_environment |-> [gdp_growth |-> 20, inflation_rate |-> 30],
     market_phase         |-> [phase |-> "sideways", direction |-> "neutral"],
     overall_outlook      |-> "cautiously optimistic",
     confidence_level     |-> 60]

\* A layer function answers [raised, value]: raised tells whether an
\* exception left the function.  The layer functions catch every exception
\* of their computation and answer their fallback payload.
Returns(v) == [raised |-> FALSE, value |-> v]
Raises(e)  == [raised |-> TRUE, value |-> [error |-> e]]

\* the try block of _analyze_market_overview; layer1 is the collector's answer.
\* collect_all_data sets neither 'success' nor 'data', so data is {}.
MarketOverview(layer1, flow) ==
    LET data == get(layer1, "data", EmptyDict)
        sentiment_analysis    == _analyze_market_sentiment(data)
        economic_analysis     == _analyze_economic_environment(data)
        capital_flow_analysis == _analyze_capital_flows(data, flow)
        market_phase == _determine_comprehensive_market_phase(
                            sentiment_analysis, economic_analysis, capital_flow_analysis)
    IN  [market_sentiment     |-> sentiment_analysis,
         economic_environment |-> economic_analysis,
         capital_flows        |-> capital_flow_analysis,
         market_phase         |-> market_phase,
         overall_outlook      |-> "computed outlook",
         confidence_level     |-> _calculate_market_confidence(sentiment_analysis,
                                                               economic_analysis)]

\* the try block raises when the collector raises, or at layer1_data['data']
\* when 'success' is set and 'data' is missing
MarketOverviewRaises(outcome) ==
    \/ outcome.raises
    \/ get(outcome.results, "success", FALSE) /\ "data" \notin DOMAIN outcome.results

\* variant: the computation is not wrapped in try/except
_analyze_market_overview_nocatch(outcome, flow) ==
    IF MarketOverviewRaises(outcome) THEN Raises("collector failed")
    ELSE Returns(MarketOverview(outcome.results, flow))

_analyze_market_overview(outcome, flow) ==
    IF MarketOverviewRaises(outcome) THEN Returns(_get_fallback_market_overview)
    ELSE Returns(MarketOverview(outcome.results, flow))

(***************************************************************************)
(* _determine_investment_strategy                                          *)
(***************************************************************************)
_determine_investment_strategy(layer1) ==
    LET market_phase == get(layer1, "market_phase", EmptyDict)
        phase == get(market_phase, "phase", "none")
        choice ==
            IF phase = "bull_mid"
                THEN [strategy_type |-> "growth", risk_level |-> "medium_high",
                      sector_focus |-> <<"tech", "consumer", "healthcare">>]
            ELSE IF phase = "bear_recovery"
                THEN [strategy_type |-> "value", risk_level |-> "medium",
                      sector_focus |-> <<"financial", "industrial", "energy">>]
            ELSE IF phase = "bull_late"
                THEN [strategy_type |-> "defensive", risk_level |-> "low",
                      sector_focus |-> <<"utilities", "staples", "healthcare">>]
            ELSE [strategy_type |-> "balanced", risk_level |-> "medium",
                  sector_focus |-> <<"tech", "healthcare", "financial", "industrial">>]
    IN  [strategy_type      |-> choice.strategy_type,
         risk_level         |-> choice.risk_level,
         sector_focus       |-> choice.sector_focus,
         screening_criteria |-> _build_screening_criteria(choice.strategy_type,
                                                          choice.risk_level)]

(***************************************************************************)
(* Layer 2: _analyze_sector_catalysts                                      *)
(***************************************************************************)
\* sectors whose hardcoded performance is above 8, in dictionary order
top_performers == <<"Technology", "Energy">>

FocusSector(sector, reason, confidence) ==
    [sector |-> sector, reason |-> reason, confidence |-> confidence]

_select_focus_sectors ==
    Take([i \in 1..Len(Take(top_performers, 3)) |->
             FocusSector(top_performers[i], "performance", 85)]
         \o <<FocusSector("Technology", "AI", 90)>>, 4)

_analyze_sector_rotation(market_overview) ==
    LET market_phase == get(get(market_overview, "market_phase", EmptyDict),
                            "phase", "sideways")
    IN  IF market_phase = "bull_mid"
            THEN [beneficiary_sectors |-> <<"Financial", "Industrial", "Energy">>]
        ELSE IF market_phase = "bull_late"
            THEN [beneficiary_sectors |-> <<"Healthcare", "Utilities", "Consumer Staples">>]
        ELSE [beneficiary_sectors |-> <<"Technology", "Healthcare">>]

_get_fallback_sector_analysis ==
    [focus_sectors |-> <<FocusSector("Technology", "AI", 80),
                         FocusSector("Healthcare", "defensive", 75)>>,
     market_catalysts |-> [earnings_season |-> "ongoing"]]

\* fails: an exception is raised somewhere inside the try block
_analyze_sector_catalysts(market_overview, strat, fails) ==
    IF fails THEN Returns(_get_fallback_sector_analysis)
    ELSE Returns([sector_performance |-> [top_performers |-> top_performers],
                  sector_rotation    |-> _analyze_sector_rotation(market_overview),
                  focus_sectors      |-> _select_focus_sectors,
                  investment_themes  |-> "themes"])

(***************************************************************************)
(* Layer 3: _generate_trading_watchlist                                    *)
(***************************************************************************)
Candidate(symbol, sector, total_score) ==
    [symbol |-> symbol, sector |-> sector, total_score |-> total_score]

HasSector(focus_sectors, sector) ==
    \E i \in 1..Len(focus_sectors) : focus_sectors[i].sector = sector

_screen_stocks_by_sectors(focus_sectors, strat) ==
    (IF HasSector(focus_sectors, "Technology")
     THEN <<Candidate("AAPL", "Technology", 85), Candidate("NVDA", "Technology", 88),
            Candidate("MSFT", "Technology", 82), Candidate("GOOGL", "Technology", 80)>>
     ELSE <<>>)
    \o
    (IF HasSector(focus_sectors, "Energy")
     THEN <<Candidate("XOM", "Energy", 75), Candidate("CVX", "Energy", 78)>>
     ELSE <<>>)
    \o
    (IF HasSector(focus_sectors, "Healthcare")
     THEN <<Candidate("JNJ", "Healthcare", 77), Candidate("PFE", "Healthcare", 72)>>
     ELSE <<>>)

\* the labels _perform_detailed_technical_analysis draws at random
Signals == {"buy", "strong_buy", "hold", "sell"}

WatchlistSize == 8

\* variant: every candidate is kept, whatever its signal
Confirm_all(candidates, signal) ==
    [i \in 1..Len(candidates) |->
        candidates[i] @@ [technical_analysis |-> [signal |-> signal[candidates[i].symbol]]]]

RECURSIVE Confirm(_, _)
\* the candidates whose drawn signal is buy or strong_buy, with the analysis attached
Confirm(candidates, signal) ==
    IF candidates = <<>> THEN <<>>
    ELSE LET stock == Head(candidates)
             technical_analysis == [signal |-> signal[stock.symbol]]
         IN  IF technical_analysis.signal \in {"buy", "strong_buy"}
             THEN <<stock @@ [technical_analysis |-> technical_analysis]>>
                  \o Confirm(Tail(candidates), signal)
             ELSE Confirm(Tail(candidates), signal)

_get_fallback_watchlist ==
    [watchlist |-> <<[symbol |-> "AAPL", name |-> "Apple Inc.", total_score |-> 80],
                     [symbol |-> "MSFT", name |-> "Microsoft Corp.", total_score |-> 78]>>,
     watchlist_summary |-> "2 picks"]

\* variant: the confirmed candidates are cut to 8 without sorting
_generate_trading_watchlist_unsorted(sector_analysis, strat, signal, fails) ==
    IF fails THEN Returns(_get_fallback_watchlist)
    ELSE LET focus_sectors    == get(sector_analysis, "focus_sectors", <<>>)
             stocks           == _screen_stocks_by_sectors(focus_sectors, strat)
             confirmed_stocks == Confirm(stocks, signal)
         IN  Returns([watchlist |-> Take(confirmed_stocks, WatchlistSize),
                      watchlist_summary |-> "summary"])

\* signal: the label drawn for each candidate; fails: an exception is raised
\* somewhere inside the try block
_generate_trading_watchlist(sector_analysis, strat, signal, fails) ==
    IF fails THEN Returns(_get_fallback_watchlist)
    ELSE LET focus_sectors    == get(sector_analysis, "focus_sectors", <<>>)
             stocks           == _screen_stocks_by_sectors(focus_sectors, strat)
             confirmed_stocks == Confirm(stocks, signal)
             final_watchlist  == Take(SortDesc(confirmed_stocks, <<>>), WatchlistSize)
         IN  Returns([watchlist |-> final_watchlist,
                      watchlist_summary |-> "summary"])

(***************************************************************************)
(* Layer 4: _analyze_options_strategies                                    *)
(***************************************************************************)
Option(name, underlying) == [strategy |-> name, underlying |-> underlying]

_generate_bullish_strategies(watchlist, vol_env) ==
    LET picks == Take(get(watchlist, "watchlist", <<>>), 3)
    IN  [i \in 1..Len(picks) |->
            Option(IF vol_env.environment = "low" THEN "Buy Call" ELSE "Bull Call Spread",
                   picks[i].symbol)]

_get_fallback_options_analysis ==
    [volatility_environment |-> [level |-> "medium", trend |-> "stable"],
     recommended_strategies |-> <<[type |-> "wait"], [type |-> "conservative"]>>]

\* environment: the volatility environment derived from the drawn VIX level
_analyze_options_strategies(market_overview, watchlist, strat, environment, fails) ==
    IF fails THEN Returns(_get_fallback_options_analysis)
    ELSE LET volatility_env == [environment |-> environment]
             trend == get(get(market_overview, "market_phase", EmptyDict), "trend", "")
             strategies ==
                 (IF trend \in {"up", "recovery"}
                  THEN _generate_bullish_strategies(watchlist, volatility_env) ELSE <<>>)
                 \o (IF trend \in {"down", "recession"}
                     THEN <<Option("Buy Put", "SPY")>> ELSE <<>>)
                 \o (IF get(volatility_env, "level", "") = "high"
                     THEN <<Option("Iron Condor", "SPY")>> ELSE <<>>)
                 \o (IF get(strat, "risk_tolerance", "") = "low"
                     THEN <<Option("Protective Put", "held")>> ELSE <<>>)
                 \o <<Option("Straddle", "AAPL")>>
         IN  Returns([volatility_environment |-> volatility_env,
                      recommended_strategies |-> Take(strategies, 5)])

(***************************************************************************)
(* _generate_comprehensive_recommendations, _generate_executive_summary    *)
(***************************************************************************)
_generate_comprehensive_recommendations(layer1, layer2, layer3, layer4, strat) ==
    LET focus == get(layer2, "focus_sectors", <<>>)
    IN  [market_outlook     |-> get(layer1, "overall_outlook", "neutral"),
         focus_sectors      |-> [i \in 1..Len(focus) |-> focus[i].sector],
         top_picks          |-> Take(get(layer3, "watchlist", <<>>), 5),
         options_strategies |-> Take(get(layer4, "strategy_recommendations", <<>>), 3),
         risk_level         |-> "medium",
         confidence         |-> 78]

_generate_executive_summary(recommendations) ==
    LET top_picks == get(recommendations, "top_picks", <<>>)
    IN  [total_recommendations |-> Len(top_picks),
         strong_buy_count |->
             Cardinality({i \in 1..Len(top_picks) :
                            get(top_picks[i], "final_rating", 0) >= 80}),
         primary_sectors |->
             {get(top_picks[i], "sector", "Unknown") : i \in 1..Min2(3, Len(top_picks))}]

(***************************************************************************)
(* analyze_complete_flow, statement by statement                           *)
(***************************************************************************)
\* variant: the technical layer is called before the sector layer
NextStatement_swapped(p) ==
    CASE p = "macro"     -> "strategy"
      [] p = "strategy"  -> "technical"
      [] p = "technical" -> "sector"
      [] p = "sector"    -> "options"
      [] p = "options"   -> "recommend"
      [] p = "recommend" -> "done"

\* the statement executed after p when p did not raise
NextStatement(p) ==
    CASE p = "macro"     -> "strategy"
      [] p = "strategy"  -> "sector"
      [] p = "sector"    -> "technical"
      [] p = "technical" -> "options"
      [] p = "options"   -> "recommend"
      [] p = "recommend" -> "done"

\* variant: the handler lets the exception through to the caller
OuterHandler_reraise(e) == [raised |-> TRUE, error |-> e]

\* except Exception as e: return {"success": False, "error": str(e), ...}
OuterHandler(e) == [success |-> FALSE, error |-> e, message |-> "retry later"]

Started(layer)  == [event |-> "start", layer |-> layer]
Finished(layer) == [event |-> "return", layer |-> layer]

\* the log after a call of the layer function that answered r
Logged(layer, r) ==
    IF r.raised THEN layer_log \o <<Started(layer)>>
    ELSE layer_log \o <<Started(layer), Finished(layer)>>

Init ==
    /\ provider = Unset
    /\ strategy = Unset
    /\ scores = Unset
    /\ stock_data = Unset
    /\ ScreenIdle
    /\ RunIdle
    /\ ExtraIdle

\* a request enters analyze_complete_flow
StartRun ==
    /\ pc \in {"idle", "done"}
    /\ pc' = "macro"
    /\ layer1_data' = Unset
    /\ layer1_result' = Unset
    /\ investment_strategy' = Unset
    /\ layer2_result' = Unset
    /\ candidate_stocks' = <<>>
    /\ layer3_result' = Unset
    /\ layer4_result' = Unset
    /\ result' = Unset
    /\ layer_log' = <<>>
    /\ raised_layers' = {}
    /\ escaped' = "none"
    /\ technical_signals' = <<>>
    /\ UNCHANGED <<extraVars, stockVars, screenVars>>

\* layer1_result = self._analyze_market_overview()
MacroStep ==
    /\ pc = "macro"
    /\ \E outcome \in CollectorOutcomes, flow \in {"in", "out"} :
          LET r == _analyze_market_overview(outcome, flow)
          IN  /\ layer1_data' = outcome
              /\ layer_log' = Logged("MACRO", r)
              /\ raised_layers' = IF MarketOverviewRaises(outcome)
                                  THEN raised_layers \cup {"MACRO"} ELSE raised_layers
              /\ IF r.raised
                 THEN /\ result' = OuterHandler(r.value.error)
                      /\ escaped' = pc
                      /\ pc' = "done"
                      /\ UNCHANGED layer1_result
                 ELSE /\ layer1_result' = r.value
                      /\ pc' = NextStatement(pc)
                      /\ UNCHANGED <<result, escaped>>
    /\ UNCHANGED <<extraVars, stockVars, screenVars, technical_signals, investment_strategy, layer2_result,
                   candidate_stocks, layer3_result, layer4_result>>

\* investment_strategy = self._determine_investment_strategy(layer1_result);
\* the call is outside every layer-level handler: an unexpected exception in
\* it reaches the handler of analyze_complete_flow
StrategyStep ==
    /\ pc = "strategy"
    /\ \E unexpected \in BOOLEAN :
          IF unexpected
          THEN /\ result' = OuterHandler("unexpected")
               /\ escaped' = pc
               /\ pc' = "done"
               /\ UNCHANGED investment_strategy
          ELSE /\ investment_strategy' = _determine_investment_strategy(layer1_result)
               /\ pc' = NextStatement(pc)
               /\ UNCHANGED <<result, escaped>>
    /\ UNCHANGED <<extraVars, stockVars, screenVars, technical_signals, layer1_data, layer1_result, layer2_result,
                   candidate_stocks, layer3_result, layer4_result, layer_log,
                   raised_layers>>

\* layer2_result = self._analyze_sector_catalysts(layer1_result, investment_strategy)
SectorStep ==
    /\ pc = "sector"
    /\ \E fails \in BOOLEAN :
          LET r == _analyze_sector_catalysts(layer1_result, investment_strategy, fails)
          IN  /\ layer_log' = Logged("SECTOR", r)
              /\ raised_layers' = IF fails THEN raised_layers \cup {"SECTOR"}
                                  ELSE raised_layers
              /\ IF r.raised
                 THEN /\ result' = OuterHandler(r.value.error)
                      /\ escaped' = pc
                      /\ pc' = "done"
                      /\ UNCHANGED layer2_result
                 ELSE /\ layer2_result' = r.value
                      /\ pc' = NextStatement(pc)
                      /\ UNCHANGED <<result, escaped>>
    /\ UNCHANGED <<extraVars, stockVars, screenVars, technical_signals, layer1_data, layer1_result,
                   investment_strategy, candidate_stocks, layer3_result, layer4_result>>

\* where the try block of _generate_trading_watchlist raises: never, before any
\* candidate is analysed, or after the candidates were classified (while the
\* trading strategies and the summary are built)
FailurePoints == {"never", "screening", "strategy"}

\* layer3_result = self._generate_trading_watchlist(layer2_result, investment_strategy)
TechnicalStep ==
    /\ pc = "technical"
    /\ LET stocks == _screen_stocks_by_sectors(get(layer2_result, "focus_sectors", <<>>),
                                               investment_strategy)
       IN  \E raises_at \in FailurePoints,
              signal \in [SeqToSet(SymbolsOf(stocks)) -> Signals] :
              LET fails == raises_at # "never"
                  r == _generate_trading_watchlist(layer2_result, investment_strategy,
                                                   signal, fails)
              IN  /\ raises_at = "screening" => \A x \in DOMAIN signal : signal[x] = "hold"
                  /\ candidate_stocks' = IF raises_at = "screening" THEN <<>> ELSE stocks
                  /\ technical_signals' = IF raises_at = "screening" THEN <<>> ELSE signal
                  /\ layer_log' = Logged("TECHNICAL", r)
                  /\ raised_layers' = IF fails THEN raised_layers \cup {"TECHNICAL"}
                                      ELSE raised_layers
                  /\ IF r.raised
                     THEN /\ result' = OuterHandler(r.value.error)
                          /\ escaped' = pc
                          /\ pc' = "done"
                          /\ UNCHANGED layer3_result
                     ELSE /\ layer3_result' = r.value
                          /\ pc' = NextStatement(pc)
                          /\ UNCHANGED <<result, escaped>>
    /\ UNCHANGED <<extraVars, stockVars, screenVars, layer1_data, layer1_result,
                   investment_strategy, layer2_result, layer4_result>>

\* layer4_result = self._analyze_options_strategies(layer1_result, layer3_result,
\*                                                  investment_strategy)
OptionsStep ==
    /\ pc = "options"
    /\ \E fails \in BOOLEAN, environment \in {"low", "medium"} :
          LET r == _analyze_options_strategies(layer1_result, layer3_result,
                                               investment_strategy, environment, fails)
          IN  /\ layer_log' = Logged("OPTIONS", r)
              /\ raised_layers' = IF fails THEN raised_layers \cup {"OPTIONS"}
                                  ELSE raised_layers
              /\ IF r.raised
                 THEN /\ result' = OuterHandler(r.value.error)
                      /\ escaped' = pc
                      /\ pc' = "done"
                      /\ UNCHANGED layer4_result
                 ELSE /\ layer4_result' = r.value
                      /\ pc' = NextStatement(pc)
                      /\ UNCHANGED <<result, escaped>>
    /\ UNCHANGED <<extraVars, stockVars, screenVars, technical_signals, layer1_data, layer1_result,
                   investment_strategy, layer2_result, candidate_stocks, layer3_result>>

\* final recommendations, executive summary and the return statement; an
\* unexpected exception here reaches the handler of analyze_complete_flow
RecommendStep ==
    /\ pc = "recommend"
    /\ \E unexpected \in BOOLEAN :
          IF unexpected
          THEN /\ result' = OuterHandler("unexpected")
               /\ escaped' = pc
          ELSE LET final_recommendations ==
                       _generate_comprehensive_recommendations(
                           layer1_result, layer2_result, layer3_result, layer4_result,
                           investment_strategy)
               IN  /\ UNCHANGED escaped
                   /\ result' =
                       [success                   |-> TRUE,
                        layer1_market_overview    |-> layer1_result,
                        layer2_sector_analysis    |-> layer2_result,
                        layer3_trading_watchlist  |-> layer3_result,
                        layer4_options_strategies |-> layer4_result,
                        investment_strategy       |-> investment_strategy,
                        final_recommendations     |-> final_recommendations,
                        executive_summary         |->
                            _generate_executive_summary(final_recommendations)]
    /\ pc' = "done"
    /\ UNCHANGED <<extraVars, stockVars, screenVars, technical_signals, layer1_data, layer1_result,
                   investment_strategy, layer2_result, candidate_stocks, layer3_result,
                   layer4_result, layer_log, raised_layers>>

Next ==
    \/ StartRun
    \/ MacroStep
    \/ StrategyStep
    \/ SectorStep
    \/ TechnicalStep
    \/ OptionsStep
    \/ RecommendStep

Spec == Init /\ [][Next]_vars

(***************************************************************************)
(* Claims about one run of analyze_complete_flow                           *)
(***************************************************************************)
\* C4: analyze_complete_flow never raises to its caller: it answers with a
\* mapping that has a boolean success field, and whenever an exception got
\* past the layer-level handlers the answer has success = FALSE and an error
\* field.
C4_AlwaysReturnsResult ==
    pc = "done" =>
        /\ "success" \in DOMAIN result
        /\ result.success \in BOOLEAN
        /\ "raised" \notin DOMAIN result
        /\ escaped # "none" => result.success = FALSE /\ "error" \in DOMAIN result

\* a run in which an exception got past the layer-level handlers has answered
C4_Witness ==
    /\ pc = "done"
    /\ escaped # "none"
    /\ raised_layers # {}
    /\ result.success = FALSE

RECURSIVE SelectLog(_, _)
SelectLog(log, layers) ==
    IF log = <<>> THEN <<>>
    ELSE IF Head(log).layer \in layers
         THEN <<Head(log)>> \o SelectLog(Tail(log), layers)
         ELSE SelectLog(Tail(log), layers)

IsPrefix(a, b) == Len(a) <= Len(b) /\ \A i \in 1..Len(a) : a[i] = b[i]

ThreeLayers == <<"MACRO", "SECTOR", "TECHNICAL">>

\* start and return of the three layers in the order the spec requires
OrderedEvents ==
    <<Started("MACRO"), Finished("MACRO"), Started("SECTOR"), Finished("SECTOR"),
      Started("TECHNICAL"), Finished("TECHNICAL")>>

\* C5: in one run the macro, sector and technical layers execute in this order,
\* each at most once; a layer starts only after the previous one returned and
\* no earlier layer is entered again.
C5_LayersInOrder ==
    IsPrefix(SelectLog(layer_log, SeqToSet(ThreeLayers)), OrderedEvents)

\* a run that went through all three layers
C5_Witness ==
    /\ pc = "done"
    /\ SelectLog(layer_log, SeqToSet(ThreeLayers)) = OrderedEvents

LayerResult(layer) ==
    CASE layer = "MACRO"     -> layer1_result
      [] layer = "SECTOR"    -> layer2_result
      [] layer = "TECHNICAL" -> layer3_result
      [] layer = "OPTIONS"   -> layer4_result

Fallback(layer) ==
    CASE layer = "MACRO"     -> _get_fallback_market_overview
      [] layer = "SECTOR"    -> _get_fallback_sector_analysis
      [] layer = "TECHNICAL" -> _get_fallback_watchlist
      [] layer = "OPTIONS"   -> _get_fallback_options_analysis

FourLayers == {"MACRO", "SECTOR", "TECHNICAL", "OPTIONS"}

\* C6: when the computation of a layer raises, the layer yields its hardcoded
\* fallback payload, the later layers still run, and the run ends with
\* success = TRUE (unless an exception is raised outside the layers).
C6_LayerFailureFallsBack ==
    /\ \A layer \in raised_layers :
          escaped \notin {"strategy", "recommend"} =>
              /\ escaped = "none"
              /\ LayerResult(layer) = Fallback(layer)
    /\ pc = "done" /\ raised_layers # {} /\ escaped \notin {"strategy", "recommend"} =>
          /\ \A layer \in FourLayers : \E i \in 1..Len(layer_log) :
                layer_log[i] = Finished(layer)
          /\ result.success = TRUE
          /\ \A layer \in raised_layers :
                /\ LayerResult(layer) = Fallback(layer)
                /\ layer = "MACRO" =>
                      result.layer1_market_overview = _get_fallback_market_overview
                /\ layer = "TECHNICAL" =>
                      result.layer3_trading_watchlist = _get_fallback_watchlist

\* the macro layer raised and the run ended with success = TRUE
C6_Witness ==
    /\ pc = "done"
    /\ "MACRO" \in raised_layers
    /\ "TECHNICAL" \in raised_layers
    /\ result.success = TRUE
    /\ result.layer1_market_overview = _get_fallback_market_overview

\* C8, as the spec states it: every symbol that Layer 3 analyses or returns
\* in a run appeared in the selected_stocks output of Layer 2 of that run.
C8_Layer3SymbolsFromLayer2 ==
    layer3_result # Unset =>
        \A symbol \in SeqToSet(SymbolsOf(candidate_stocks)) \cup
                      SeqToSet(SymbolsOf(get(layer3_result, "watchlist", <<>>))) :
            symbol \in SeqToSet(SymbolsOf(get(layer2_result, "selected_stocks", <<>>)))

(***************************************************************************)
(* Claims about the Layer-3 watchlist                                      *)
(***************************************************************************)
Watchlist == get(layer3_result, "watchlist", <<>>)

\* the entry went through the signal confirmation with a buy or strong_buy
HasBuySignal(entry) ==
    /\ "technical_analysis" \in DOMAIN entry
    /\ entry.technical_analysis.signal \in {"buy", "strong_buy"}

\* the candidate was classified and its signal was hold or sell
ClassifiedOut(symbol) ==
    /\ symbol \in DOMAIN technical_signals
    /\ technical_signals[symbol] \in {"hold", "sell"}

\* C11, as the spec states it: every entry of the watchlist Layer 3 returns
\* has a classified signal in {buy, strong_buy}, and a candidate classified
\* hold or sell is never in the watchlist.
C11_Original ==
    layer3_result # Unset =>
        \A i \in 1..Len(Watchlist) :
            /\ HasBuySignal(Watchlist[i])
            /\ ~ClassifiedOut(Watchlist[i].symbol)

\* C11 amended: every entry of a watchlist that Layer 3's own computation
\* produced has a classified signal in {buy, strong_buy} and no candidate
\* classified hold or sell is in it; when the computation raises, the
\* hardcoded fallback watchlist (AAPL, MSFT) is returned, whose entries carry
\* no signal.
C11_WatchlistConfirmed ==
    /\ (layer3_result # Unset /\ "TECHNICAL" \notin raised_layers) =>
          \A i \in 1..Len(Watchlist) :
              /\ HasBuySignal(Watchlist[i])
              /\ technical_signals[Watchlist[i].symbol]
                     = Watchlist[i].technical_analysis.signal
              /\ ~ClassifiedOut(Watchlist[i].symbol)
    /\ (layer3_result # Unset /\ "TECHNICAL" \in raised_layers) =>
          /\ layer3_result = _get_fallback_watchlist
          /\ \A i \in 1..Len(Watchlist) : "technical_analysis" \notin DOMAIN Watchlist[i]

\* a computed watchlist that kept a strong_buy and a buy candidate and left
\* out a hold and a sell candidate
C11_Witness ==
    /\ layer3_result # Unset
    /\ "TECHNICAL" \notin raised_layers
    /\ \E i, j \in 1..Len(Watchlist) :
          /\ Watchlist[i].technical_analysis.signal = "strong_buy"
          /\ Watchlist[j].technical_analysis.signal = "buy"
    /\ \E x, y \in DOMAIN technical_signals :
          /\ technical_signals[x] = "hold"
          /\ technical_signals[y] = "sell"

\* the candidates of the run whose classified signal is buy or strong_buy
ConfirmedCandidates ==
    {i \in 1..Len(candidate_stocks) :
        /\ candidate_stocks[i].symbol \in DOMAIN technical_signals
        /\ technical_signals[candidate_stocks[i].symbol] \in {"buy", "strong_buy"}}

\* no confirmed candidate that is left out scores higher than an entry that is kept
NoBetterLeftOut ==
    \A i \in ConfirmedCandidates :
        candidate_stocks[i].symbol \notin SeqToSet(SymbolsOf(Watchlist)) =>
            \A j \in 1..Len(Watchlist) :
                candidate_stocks[i].total_score <= Watchlist[j].total_score

\* C12, as the spec states it: the watchlist has at most 8 entries in
\* non-increasing total_score order and no signal-confirmed candidate that is
\* left out has a higher total_score than one that is kept.
C12_Original ==
    layer3_result # Unset =>
        /\ Len(Watchlist) <= 8
        /\ NonIncreasing(Watchlist)
        /\ NoBetterLeftOut

\* C12 amended: the watchlist has at most 8 entries in non-increasing
\* total_score order; when Layer 3's own computation produced it, it holds
\* every signal-confirmed candidate up to the 8 best (when the computation
\* raises after the classification, the fallback watchlist leaves confirmed
\* candidates out whatever their score).
C12_WatchlistTop ==
    layer3_result # Unset =>
        /\ Len(Watchlist) <= 8
        /\ NonIncreasing(Watchlist)
        /\ "TECHNICAL" \notin raised_layers =>
              /\ NoBetterLeftOut
              /\ Len(Watchlist) = Min2(8, Cardinality(ConfirmedCandidates))

\* a computed watchlist of several confirmed candidates with different scores,
\* next to candidates that were not confirmed
C12_Witness ==
    /\ layer3_result # Unset
    /\ "TECHNICAL" \notin raised_layers
    /\ Len(Watchlist) >= 3
    /\ Watchlist[1].total_score > Watchlist[Len(Watchlist)].total_score
    /\ Cardinality(ConfirmedCandidates) < Len(candidate_stocks)

(***************************************************************************)
(* Claims about the final recommendations                                  *)
(***************************************************************************)
\* round(fundamental_score * 0.6 + technical_score * 0.4, 1), in tenths; the
\* scores are integers, so the rounding changes nothing
_calculate_final_rating(fundamental_score, technical_score) ==
    6 * fundamental_score + 4 * technical_score

\* top_picks of the result a successful run returned
TopPicks == get(get(result, "final_recommendations", EmptyDict), "top_picks", <<>>)

\* the entry carries the final rating computed from its two scores
HasFinalRating(entry) ==
    /\ {"final_rating", "technical_score", "total_score"} \subseteq DOMAIN entry
    /\ entry.final_rating = _calculate_final_rating(entry.total_score,
                                                    entry.technical_score)

\* C13, as the spec states it: top_picks has at most 5 entries, they are the
\* Layer-3 candidates with the highest final rating
\* (0.6 x fundamental_score + 0.4 x technical_score), in non-increasing
\* final-rating order.
C13_TopPicksByFinalRating ==
    (pc = "done" /\ result.success) =>
        /\ Len(TopPicks) <= 5
        /\ \A i \in 1..Len(TopPicks) : HasFinalRating(TopPicks[i])
        /\ \A i \in 1..Len(TopPicks) - 1 :
              TopPicks[i].final_rating >= TopPicks[i + 1].final_rating
        /\ \A j \in 1..Len(Watchlist) :
              Watchlist[j].symbol \notin SeqToSet(SymbolsOf(TopPicks)) =>
                  \A i \in 1..Len(TopPicks) :
                      Watchlist[j].final_rating <= TopPicks[i].final_rating

(***************************************************************************)
(* Claims about the screening when the market-data provider is down        *)
(***************************************************************************)
\* the market-data provider raises for every symbol of the universe
ProviderDown ==
    \A i \in 1..Len(market_universe) : MarketData(pattern, market_universe[i]).raises

\* C14, as the spec states it: when the market-data provider raises for every
\* symbol of the universe, the screening returns the fallback list of the
\* active primary_focus (AAPL, MSFT, GOOGL, AMZN, TSLA for the growth focus),
\* each entry with total_score = 70.
C14_FallbackWhenProviderDown ==
    (screen_pc = "returned" /\ ProviderDown) =>
        /\ screening_result.selected_stocks = _get_fallback_stocks(strategy).selected_stocks
        /\ \A i \in 1..Len(screening_result.selected_stocks) :
              screening_result.selected_stocks[i].total_score = 70
        /\ strategy.primary_focus = "growth" =>
              SymbolsOf(screening_result.selected_stocks)
                  = <<"AAPL", "MSFT", "GOOGL", "AMZN", "TSLA">>

(***************************************************************************)
(* Claims about the Layer-1 defaults                                       *)
(***************************************************************************)
\* the data mapping _analyze_market_overview hands to its analyses
SuppliedData == get(layer1_data.results, "data", EmptyDict)

\* the collector raised, or its answer has neither sentiment nor economic data
NoDataSupplied ==
    \/ layer1_data.raises
    \/ /\ "fear_greed" \notin DOMAIN SuppliedData
       /\ "economic_data" \notin DOMAIN SuppliedData

Sentiment == get(layer1_result, "market_sentiment", EmptyDict)
Economy   == get(layer1_result, "economic_environment", EmptyDict)

\* C15, as the spec states it: when the macro/sentiment provider supplies no
\* data, the Layer-1 result uses exactly sentiment = 50, GDP growth = 2.0,
\* unemployment = 4.0 and inflation = 3.0 (tenths: 20, 40, 30).
C15_Original ==
    (layer1_result # Unset /\ NoDataSupplied) =>
        /\ get(Sentiment, "fear_greed_index", Absent) = 50
        /\ get(Economy, "gdp_growth", Absent) = 20
        /\ get(Economy, "unemployment_rate", Absent) = 40
        /\ get(Economy, "inflation_rate", Absent) = 30

\* C15 amended: when the collector answers without data, the Layer-1 result
\* uses sentiment = 50, GDP growth = 2.0, unemployment = 4.0 and inflation =
\* 3.0; when the collection raises, the fallback overview carries sentiment =
\* 50, GDP growth = 2.0 and inflation = 3.0 and no unemployment value.
C15_NeutralDefaults ==
    (layer1_result # Unset /\ NoDataSupplied) =>
        /\ get(Sentiment, "fear_greed_index", Absent) = 50
        /\ get(Economy, "gdp_growth", Absent) = 20
        /\ get(Economy, "inflation_rate", Absent) = 30
        /\ IF "MACRO" \in raised_layers
           THEN "unemployment_rate" \notin DOMAIN Economy
           ELSE get(Economy, "unemployment_rate", Absent) = 40

\* the collector answered with no source at all and Layer 1 computed its
\* overview from the defaults
C15_Witness ==
    /\ layer1_result # Unset
    /\ ~layer1_data.raises
    /\ layer1_data.results.data_sources = EmptyDict
    /\ "MACRO" \notin raised_layers
    /\ Economy.unemployment_rate = 40
    /\ Sentiment.overall_sentiment = "neutral"

(***************************************************************************)
(* src/app.py: the request handlers that touch the latest-data globals.    *)
(* Flask serves requests on concurrent threads; each handler is a sequence *)
(* of steps, `with data_lock:` is an acquire step that waits for the lock  *)
(* and a release step at the end of the block.                             *)
(***************************************************************************)
\* what a collector hands back: the collected data.  A payload is "plain"
\* when jsonify can serialise it and "numpy" when it holds a value jsonify
\* raises TypeError for (Layer3Collector stores data['Volume'].iloc[-1], a
\* numpy.int64, in its indicators)
Collected(payload) == [kind |-> "data", payload |-> payload]
Payloads == {"plain", "numpy"}
Serializable(payload) == payload = "plain"

\* variant: entering the with block does not wait for the lock
LockAvailable_nowait == TRUE

\* threading.Lock: acquire proceeds only while no thread holds the lock
LockAvailable == data_lock = Unlocked

\* the positions at which a handler reads or assigns a latest-data global
AccessPcs == {"assign", "test", "read"}

\* POST /api/layerN/collect: the collector runs outside the lock; when it
\* raises the handler answers 500 without touching the global
CollectLayerData(h) ==
    /\ request[h].pc = "idle"
    /\ \E layer \in Layers, raises \in BOOLEAN, payload \in Payloads :
          request' = [request EXCEPT ![h] =
                         IF raises
                         THEN [pc |-> "respond", op |-> "collect", layer |-> layer,
                               response |-> [success |-> FALSE]]
                         ELSE [pc |-> "acquire", op |-> "collect", layer |-> layer,
                               data |-> Collected(payload)]]
    /\ UNCHANGED <<latest_layer_data, data_lock, last_stored>>

\* GET /api/layerN/latest
GetLatestLayerData(h) ==
    /\ request[h].pc = "idle"
    /\ \E layer \in Layers :
          request' = [request EXCEPT ![h] =
                         [pc |-> "acquire", op |-> "latest", layer |-> layer]]
    /\ UNCHANGED <<latest_layer_data, data_lock, last_stored>>

\* with data_lock: (entry)
Acquire(h) ==
    /\ request[h].pc = "acquire"
    /\ LockAvailable
    /\ data_lock' = h
    /\ request' = [request EXCEPT ![h].pc =
                      IF request[h].op = "collect" THEN "assign" ELSE "test"]
    /\ UNCHANGED <<latest_layer_data, last_stored>>

\* latest_layerN_data = data
AssignLatest(h) ==
    /\ request[h].pc = "assign"
    /\ latest_layer_data' = [latest_layer_data EXCEPT ![request[h].layer] = request[h].data]
    /\ last_stored' = [last_stored EXCEPT ![request[h].layer] = request[h].data.payload]
    /\ request' = [request EXCEPT ![h] =
                      [pc |-> "release", op |-> "collect", layer |-> request[h].layer,
                       data |-> request[h].data, stored |-> TRUE]]
    /\ UNCHANGED data_lock

\* if latest_layerN_data: ... else: answer "no data yet"
TestLatest(h) ==
    /\ request[h].pc = "test"
    /\ request' = [request EXCEPT ![h] =
                      IF latest_layer_data[request[h].layer] # None
                      THEN [pc |-> "read", op |-> "latest", layer |-> request[h].layer]
                      ELSE [pc |-> "release", op |-> "latest", layer |-> request[h].layer,
                            response |-> [success |-> FALSE]]]
    /\ UNCHANGED <<latest_layer_data, data_lock, last_stored>>

\* return jsonify({'success': True, 'data': latest_layerN_data}); no handler
\* here: when jsonify raises, the with block is left and Flask answers 500
ReadLatest(h) ==
    /\ request[h].pc = "read"
    /\ request' = [request EXCEPT ![h] =
                      [pc |-> "release", op |-> "latest", layer |-> request[h].layer,
                       response |->
                           IF Serializable(latest_layer_data[request[h].layer].payload)
                           THEN [success |-> TRUE,
                                 data |-> latest_layer_data[request[h].layer]]
                           ELSE [status |-> 500]]]
    /\ UNCHANGED <<latest_layer_data, data_lock, last_stored>>

\* with data_lock: (exit)
Release(h) ==
    /\ request[h].pc = "release"
    /\ data_lock' = IF data_lock = h THEN Unlocked ELSE data_lock
    /\ request' = [request EXCEPT ![h].pc =
                      IF request[h].op = "collect" THEN "jsonify" ELSE "respond"]
    /\ UNCHANGED <<latest_layer_data, last_stored>>

\* return jsonify({'success': True, 'data': data, ...}) after the with block,
\* inside the try: when jsonify raises, the handler answers success False
Jsonify(h) ==
    /\ request[h].pc = "jsonify"
    /\ request' = [request EXCEPT ![h] =
                      [pc |-> "respond", op |-> "collect", layer |-> request[h].layer,
                       stored |-> TRUE,
                       response |-> IF Serializable(request[h].data.payload)
                                    THEN [success |-> TRUE, data |-> request[h].data]
                                    ELSE [success |-> FALSE]]]
    /\ UNCHANGED <<latest_layer_data, data_lock, last_stored>>

\* the response is sent and the thread is free for the next request
Respond(h) ==
    /\ request[h].pc = "respond"
    /\ request' = [request EXCEPT ![h] = IdleRequest]
    /\ UNCHANGED <<latest_layer_data, data_lock, last_stored>>

InitService ==
    /\ StockIdle
    /\ ScreenIdle
    /\ RunIdle
    /\ ExtraIdle

NextService ==
    \E h \in Handlers :
        /\ \/ CollectLayerData(h)
           \/ GetLatestLayerData(h)
           \/ Acquire(h)
           \/ AssignLatest(h)
           \/ TestLatest(h)
           \/ ReadLatest(h)
           \/ Release(h)
           \/ Jsonify(h)
           \/ Respond(h)
        /\ UNCHANGED <<stockVars, screenVars, runVars, lstmVars, signalVars, indicVars, laterVars>>

SpecService == InitService /\ [][NextService]_vars

\* C16: every read and every write of the latest-data globals happens while
\* the handler holds data_lock, so no handler reads or assigns them while
\* another handler is inside its own read or write.
C16_AccessUnderLock ==
    /\ \A h \in Handlers : request[h].pc \in AccessPcs => data_lock = h
    /\ \A h1, h2 \in Handlers :
          (request[h1].pc \in AccessPcs /\ request[h2].pc \in AccessPcs) => h1 = h2

\* a handler is assigning a global that already holds data while another
\* handler waits for the lock to read the same global
C16_Witness ==
    \E h1, h2 \in Handlers :
        /\ h1 # h2
        /\ request[h1].pc = "assign"
        /\ request[h2].pc = "acquire"
        /\ request[h2].op = "latest"
        /\ request[h1].layer = request[h2].layer
        /\ latest_layer_data[request[h1].layer] # None

(***************************************************************************)
(* src/ai_models/lstm_predictor.py: generate_trading_signal.  Prices are   *)
(* integers; change_percent = (predicted - current) / current * 100 is     *)
(* compared by cross-multiplication (current > 0), thresholds in tenths of *)
(* a percent.  Signals: strong_buy, buy, sell, caution, hold; confidence:  *)
(* high, medium, low.                                                      *)
(***************************************************************************)
\* variant: the threshold itself counts as above
ChangeAbove_inclusive(current, predicted, tenths) ==
    (predicted - current) * 1000 >= tenths * current

\* change_percent > tenths / 10
ChangeAbove(current, predicted, tenths) ==
    (predicted - current) * 1000 > tenths * current

\* change_percent < -tenths / 10
ChangeBelow(current, predicted, tenths) ==
    (predicted - current) * 1000 < (0 - tenths) * current

\* round(change_percent, 2) in hundredths of a percent (round half to even)
expected_change(current, predicted) ==
    LET n    == (predicted - current) * 10000
        a    == IF n < 0 THEN 0 - n ELSE n
        q    == a \div current
        rem  == a % current
        up   == 2 * rem > current \/ (2 * rem = current /\ q % 2 = 1)
        r    == IF up THEN q + 1 ELSE q
    IN  IF n < 0 THEN 0 - r ELSE r

Signal(signal, confidence, change) ==
    [kind |-> "signal", signal |-> signal, confidence |-> confidence,
     expected_change |-> change]

\* variant: small losses are reported as hold
generate_trading_signal_nocaution(current, predicted, numpy) ==
    IF current = 0 THEN [kind |-> "ZeroDivisionError"]
    ELSE IF ChangeAbove(current, predicted, 20)
        THEN Signal("strong_buy", "high", expected_change(current, predicted))
    ELSE IF ChangeAbove(current, predicted, 5)
        THEN Signal("buy", "medium", expected_change(current, predicted))
    ELSE IF ChangeBelow(current, predicted, 20)
        THEN Signal("sell", "high", expected_change(current, predicted))
    ELSE Signal("hold", "low", expected_change(current, predicted))

\* numpy: the prices are numpy floats, for which a division by zero yields
\* inf or nan instead of raising ZeroDivisionError
generate_trading_signal(current, predicted, numpy) ==
    IF current = 0
    THEN IF ~numpy THEN [kind |-> "ZeroDivisionError"]
         ELSE IF predicted > 0 THEN Signal("strong_buy", "high", "inf")
         ELSE Signal("hold", "low", "nan")
    ELSE IF ChangeAbove(current, predicted, 20)
        THEN Signal("strong_buy", "high", expected_change(current, predicted))
    ELSE IF ChangeAbove(current, predicted, 5)
        THEN Signal("buy", "medium", expected_change(current, predicted))
    ELSE IF ChangeBelow(current, predicted, 20)
        THEN Signal("sell", "high", expected_change(current, predicted))
    ELSE IF ChangeBelow(current, predicted, 5)
        THEN Signal("caution", "medium", expected_change(current, predicted))
    ELSE Signal("hold", "low", expected_change(current, predicted))

\* prices around 200 units, where 1 unit is 0.5 % and 4 units are 2 %
PredictedPrices == 190..210
CurrentPrices   == {0} \cup PredictedPrices

InitLstm ==
    /\ StockIdle
    /\ ScreenIdle
    /\ RunIdle
    /\ ServiceIdle
    /\ SignalIdle
    /\ IndicIdle
    /\ LaterIdle
    /\ lstm_current_price \in CurrentPrices
    /\ lstm_predicted_price \in PredictedPrices
    /\ trading_signal = Unset

GenerateTradingSignal ==
    /\ trading_signal = Unset
    /\ \E numpy \in BOOLEAN :
          trading_signal' = generate_trading_signal(lstm_current_price, lstm_predicted_price, numpy)
    /\ UNCHANGED <<lstm_current_price, lstm_predicted_price, stockVars, screenVars, runVars,
                   serviceVars, signalVars, indicVars, laterVars>>

NextLstm == GenerateTradingSignal

SpecLstm == InitLstm /\ [][NextLstm]_vars

\* (predicted - current) * 1000, to be compared with tenths * current
ChangeTimes1000 == (lstm_predicted_price - lstm_current_price) * 1000

\* C17: the classifier answers exactly one bucket for every percent change:
\* strong_buy (high) when change > 2 %, otherwise buy (medium) when change >
\* 0.5 %, otherwise sell (high) when change < -2 %, otherwise caution (medium)
\* when change < -0.5 %, otherwise hold (low).
C17_ClassifierTotal ==
    (trading_signal # Unset /\ lstm_current_price > 0) =>
        LET d == ChangeTimes1000
            c == lstm_current_price
            bucket == <<trading_signal.signal, trading_signal.confidence>>
        IN  /\ trading_signal.kind = "signal"
            /\ d > 20 * c => bucket = <<"strong_buy", "high">>
            /\ (d <= 20 * c /\ d > 5 * c) => bucket = <<"buy", "medium">>
            /\ d < (0 - 20) * c => bucket = <<"sell", "high">>
            /\ (d >= (0 - 20) * c /\ d < (0 - 5) * c) => bucket = <<"caution", "medium">>
            /\ (d >= (0 - 5) * c /\ d <= 5 * c) => bucket = <<"hold", "low">>

\* a change between -2 % and -0.5 % was classified caution
C17_Witness ==
    /\ trading_signal # Unset
    /\ lstm_current_price = 200
    /\ lstm_predicted_price = 198
    /\ trading_signal.signal = "caution"

\* the change is exactly 2.0 %
ExactlyTwoPercent == lstm_current_price > 0 /\ ChangeTimes1000 = 20 * lstm_current_price

\* C18, as the spec states it: a percent change of exactly 2.0 % is
\* classified into the "> 2 %" bucket (strong_buy, high).
C18_Original ==
    (trading_signal # Unset /\ ExactlyTwoPercent) =>
        /\ trading_signal.signal = "strong_buy"
        /\ trading_signal.confidence = "high"

\* C18 amended: a percent change of exactly 2.0 % is not in the "> 2 %"
\* bucket; it is classified buy with medium confidence, and a change of
\* exactly -2.0 % is classified caution with medium confidence.
C18_TwoPercentIsBuy ==
    /\ (trading_signal # Unset /\ ExactlyTwoPercent) =>
          /\ trading_signal.signal = "buy"
          /\ trading_signal.confidence = "medium"
          /\ trading_signal.expected_change = 200
    /\ (trading_signal # Unset /\ lstm_current_price > 0
            /\ ChangeTimes1000 = (0 - 20) * lstm_current_price) =>
          /\ trading_signal.signal = "caution"
          /\ trading_signal.confidence = "medium"

\* a prediction exactly 2.0 % above the current price was classified
C18_Witness ==
    /\ trading_signal # Unset
    /\ lstm_current_price = 200
    /\ lstm_predicted_price = 204
    /\ trading_signal.kind = "signal"

(***************************************************************************)
(* src/layer3_collector.py: generate_trading_signals.  RSI is an integer   *)
(* or RsiNaN; the volume ratio is in tenths; the comparisons with 0.98 and *)
(* 1.02 times a level are cross-multiplied by 100.  Labels: strong_buy,    *)
(* buy, strong_sell, sell, hold.                                           *)
(***************************************************************************)
\* the RSI of a series too short or flat: every comparison with it is false
RsiNaN == 0 - 1

\* variant: an oversold or overbought RSI weighs 3
RsiSignal_heavy(rsi) ==
    IF rsi = RsiNaN THEN 0
    ELSE IF rsi < 30 THEN 3
    ELSE IF rsi > 70 THEN 0 - 3
    ELSE IF 30 <= rsi /\ rsi <= 45 THEN 1
    ELSE IF 55 <= rsi /\ rsi <= 70 THEN 0 - 1
    ELSE 0

\* "RSI信號": the points of the RSI zone
RsiSignal(rsi) ==
    IF rsi = RsiNaN THEN 0
    ELSE IF rsi < 30 THEN 2
    ELSE IF rsi > 70 THEN 0 - 2
    ELSE IF 30 <= rsi /\ rsi <= 45 THEN 1
    ELSE IF 55 <= rsi /\ rsi <= 70 THEN 0 - 1
    ELSE 0

\* "MACD信號": golden cross or dead cross
MacdSignal(macd_data) ==
    IF get(macd_data, "histogram", 0) > 0
          /\ get(macd_data, "macd", 0) > get(macd_data, "signal", 0) THEN 2
    ELSE IF get(macd_data, "histogram", 0) < 0
          /\ get(macd_data, "macd", 0) < get(macd_data, "signal", 0) THEN 0 - 2
    ELSE 0

\* "布林帶信號": the position in the band
BollingerSignal(bollinger) ==
    IF get(bollinger, "position", "none") = "lower" THEN 1
    ELSE IF get(bollinger, "position", "none") = "upper" THEN 0 - 1
    ELSE 0

\* "移動平均線信號": the price against the ordered averages
MaSignal(ma_data, price) ==
    IF price > get(ma_data, "ma20", 0) /\ get(ma_data, "ma20", 0) > get(ma_data, "ma50", 0)
        THEN 1
    ELSE IF price < get(ma_data, "ma20", 0) /\ get(ma_data, "ma20", 0) < get(ma_data, "ma50", 0)
        THEN 0 - 1
    ELSE 0

\* "成交量信號": volume ratio above 1.5
VolumeSignal(volume_data) ==
    IF get(volume_data, "ratio", 10) > 15 THEN 1 ELSE 0

SeqMin(levels) == CHOOSE m \in SeqToSet(levels) : \A x \in SeqToSet(levels) : m <= x
SeqMax(levels) == CHOOSE m \in SeqToSet(levels) : \A x \in SeqToSet(levels) : m >= x

\* "支撐阻力信號": near the lowest resistance, near the highest support
ResistanceSignal(resistance_levels, price) ==
    IF resistance_levels # <<>> /\ 100 * price >= 98 * SeqMin(resistance_levels)
    THEN 0 - 1 ELSE 0

SupportSignal(support_levels, price) ==
    IF support_levels # <<>> /\ 100 * price <= 102 * SeqMax(support_levels)
    THEN 1 ELSE 0

\* variant: buy needs a strength of 3
OverallSignal_shifted(signal_strength) ==
    IF signal_strength >= 4 THEN <<"strong_buy", "success">>
    ELSE IF signal_strength >= 3 THEN <<"buy", "primary">>
    ELSE IF signal_strength <= 0 - 4 THEN <<"strong_sell", "danger">>
    ELSE IF signal_strength <= 0 - 2 THEN <<"sell", "warning">>
    ELSE <<"hold", "secondary">>

\* "綜合信號判斷": overall_signal and signal_color
OverallSignal(signal_strength) ==
    IF signal_strength >= 4 THEN <<"strong_buy", "success">>
    ELSE IF signal_strength >= 2 THEN <<"buy", "primary">>
    ELSE IF signal_strength <= 0 - 4 THEN <<"strong_sell", "danger">>
    ELSE IF signal_strength <= 0 - 2 THEN <<"sell", "warning">>
    ELSE <<"hold", "secondary">>

Abs(n) == IF n < 0 THEN 0 - n ELSE n

generate_trading_signals(ind, sr) ==
    LET price    == get(sr, "current_price", 0)
        parts    == << <<"rsi", RsiSignal(get(ind, "rsi", 50))>>,
                       <<"macd", MacdSignal(get(ind, "macd", EmptyDict))>>,
                       <<"bollinger", BollingerSignal(get(ind, "bollinger", EmptyDict))>>,
                       <<"ma", MaSignal(get(ind, "ma", EmptyDict), price)>>,
                       <<"volume", VolumeSignal(get(ind, "volume", EmptyDict))>>,
                       <<"resistance", ResistanceSignal(get(sr, "resistance", <<>>), price)>>,
                       <<"support", SupportSignal(get(sr, "support", <<>>), price)>> >>
        fired    == SelectSeq(parts, LAMBDA p : p[2] # 0)
        strength == SumTo([i \in 1..7 |-> parts[i][2]], 1, 7)
        overall  == OverallSignal(strength)
    IN  [signals         |-> [i \in 1..Len(fired) |-> fired[i][1]],
         signal_strength |-> strength,
         overall_signal  |-> overall[1],
         signal_color    |-> overall[2],
         confidence      |-> Min2(Abs(strength) * 10, 100)]

\* representative indicator values: every RSI zone and its borders, every
\* MACD cross state, band position, ordering of the averages, volume ratio
RsiValues  == {RsiNaN, 20, 30, 45, 50, 55, 70, 80}
MacdValues == [histogram : {0 - 1, 0, 1}, macd : {0, 1}, signal : {0, 1}]
BollingerValues == [position : {"lower", "middle", "upper"}]
MaValues   == [ma20 : {90, 110}, ma50 : {80, 120}]
VolumeValues == [ratio : {10, 20}]
IndicatorSets ==
    {EmptyDict} \cup [rsi : RsiValues, macd : MacdValues, bollinger : BollingerValues,
                      ma : MaValues, volume : VolumeValues]
\* the price is 100; levels near it (101, 99) and away from it (120, 80)
SupportResistanceSets ==
    {EmptyDict} \cup [current_price : {100},
                      resistance : {<<>>, <<101, 120>>, <<120>>},
                      support : {<<>>, <<99, 80>>, <<80>>}]

InitSignals ==
    /\ StockIdle
    /\ ScreenIdle
    /\ RunIdle
    /\ ServiceIdle
    /\ LstmIdle
    /\ IndicIdle
    /\ LaterIdle
    /\ indicators \in IndicatorSets
    /\ support_resistance \in SupportResistanceSets
    /\ trading_signals = Unset

GenerateTradingSignals ==
    /\ trading_signals = Unset
    /\ trading_signals' = generate_trading_signals(indicators, support_resistance)
    /\ UNCHANGED <<indicators, support_resistance, stockVars, screenVars, runVars,
                   serviceVars, lstmVars, indicVars, laterVars>>

NextSignals == GenerateTradingSignals

SpecSignals == InitSignals /\ [][NextSignals]_vars

\* C19: every integer signal_strength gets exactly one label through the cut
\* points +-4 and +-2: strong_buy when it is >= 4, buy when 2 or 3,
\* strong_sell when <= -4, sell when -3 or -2, hold when between -1 and 1.
C19_StrengthToLabel ==
    trading_signals # Unset =>
        LET s == trading_signals.signal_strength
            label == trading_signals.overall_signal
        IN  /\ s \in Int
            /\ label \in {"strong_buy", "buy", "strong_sell", "sell", "hold"}
            /\ label = "strong_buy" <=> s >= 4
            /\ label = "buy" <=> s \in {2, 3}
            /\ label = "strong_sell" <=> s <= 0 - 4
            /\ label = "sell" <=> s \in {0 - 3, 0 - 2}
            /\ label = "hold" <=> s \in {0 - 1, 0, 1}

\* a strength of exactly 2, on the cut point, was labelled buy
C19_Witness ==
    /\ trading_signals # Unset
    /\ trading_signals.signal_strength = 2
    /\ trading_signals.overall_signal = "buy"
    /\ Len(trading_signals.signals) > 1


(***************************************************************************)
(* The RSI of series it cannot be computed from                            *)
(***************************************************************************)
\* the series the provider answered, and the RSI the score builder derives
ScoredSeries == History(provider.h)

\* every close of the series is the same
FlatSeries(hist) == \A i \in 1..Len(hist) : hist[i].Close = hist[1].Close

\* the rolling window of 14 has no value for the last bar, or gain/loss is 0/0
RsiNotComputable(hist) == Len(hist) < 14 \/ FlatSeries(hist)

\* C20: RSI is reported as 50 whenever it cannot be computed from the series:
\* when the series has fewer than 14 price deltas, and when the series is flat.
C20_RsiDefaultsTo50 ==
    (scores # Unset /\ RsiNotComputable(ScoredSeries)) =>
        LET rsi == current_rsi(ScoredSeries)
        IN  /\ ~rsi.nan
            /\ rsi.num = 50 * rsi.den


(***************************************************************************)
(* src/layer3_collector.py: calculate_technical_indicators, and            *)
(* src/integrated_analyzer.py: _calculate_comprehensive_technical_indica-  *)
(* tors.  An indicator value is recorded by how it came about: "computed"  *)
(* from the series, "default" (the neutral value the code substitutes) or  *)
(* "nan" (pandas left the rolling window without a value).                 *)
(***************************************************************************)
\* series.rolling(window=w).mean().iloc[-1]: NaN while fewer than w bars
Rolling(hist, w) == IF Len(hist) >= w THEN "computed" ELSE "nan"

\* rsi.iloc[-1] if not rsi.empty else 50
RsiValue(hist) ==
    IF Len(hist) = 0 THEN "default"
    ELSE IF current_rsi(hist).nan THEN "nan" ELSE "computed"

\* data['Close'].iloc[-1] raises IndexError on an empty series; the handler
\* answers {}.  ewm() has a value from the first bar on.
calculate_technical_indicators(hist) ==
    IF Len(hist) = 0 THEN EmptyDict
    ELSE [rsi       |-> RsiValue(hist),
          macd      |-> [macd |-> "computed", signal |-> "computed", histogram |-> "computed"],
          bollinger |-> [upper    |-> Rolling(hist, 20),
                         middle   |-> Rolling(hist, 20),
                         lower    |-> Rolling(hist, 20),
                         position |-> IF Len(hist) >= 20 THEN "computed" ELSE "default"],
          ma        |-> [ma5  |-> IF Len(hist) >= 5 THEN "computed" ELSE "default",
                         ma20 |-> IF Len(hist) >= 20 THEN "computed" ELSE "default",
                         ma50 |-> IF Len(hist) >= 50 THEN "computed" ELSE "default"],
          volume    |-> [current |-> "computed",
                         average |-> Rolling(hist, 20),
                         ratio   |-> IF Len(hist) >= 20 THEN "computed" ELSE "default"]]

\* no handler: close.iloc[-1] raises IndexError on an empty series
_calculate_comprehensive_technical_indicators(hist) ==
    IF Len(hist) = 0 THEN Raises("IndexError")
    ELSE Returns(
         [moving_averages |-> [ma5 |-> Rolling(hist, 5), ma10 |-> Rolling(hist, 10),
                               ma20 |-> Rolling(hist, 20), ma50 |-> Rolling(hist, 50),
                               current_price |-> "computed"],
          rsi             |-> [current |-> RsiValue(hist)],
          macd            |-> [macd |-> "computed", signal |-> "computed",
                               histogram |-> "computed"],
          bollinger_bands |-> [upper |-> Rolling(hist, 20), middle |-> Rolling(hist, 20),
                               lower |-> Rolling(hist, 20), position |-> Rolling(hist, 20)],
          volume          |-> [current_ratio |-> Rolling(hist, 20)],
          volatility      |-> [current |-> Rolling(hist, 21)]])

\* series of no bar, one bar, fewer than 14, fewer than 20, and long ones
DataLens  == {0, 1, 5, 13, 14, 19, 20, 21, 50}
DataShapes == {<<0, 0>>, <<0 - 3, 0>>, <<1, 5>>, <<2, 4>>}
DataSeries ==
    {[len |-> n, slope |-> sh[1], amp |-> sh[2], vol |-> v, spike |-> 1] :
        n \in DataLens, sh \in DataShapes, v \in {10, 30}}

InitIndicators ==
    /\ StockIdle
    /\ ScreenIdle
    /\ RunIdle
    /\ ServiceIdle
    /\ LstmIdle
    /\ SignalIdle
    /\ LaterIdle
    /\ price_data \in DataSeries
    /\ technical_indicators = Unset

CalculateTechnicalIndicators ==
    /\ indicators = Unset
    /\ indicators' = calculate_technical_indicators(History(price_data))
    /\ UNCHANGED <<price_data, technical_indicators, support_resistance, trading_signals,
                   stockVars, screenVars, runVars, serviceVars, lstmVars, laterVars>>

CalculateComprehensiveTechnicalIndicators ==
    /\ technical_indicators = Unset
    /\ technical_indicators' = _calculate_comprehensive_technical_indicators(History(price_data))
    /\ UNCHANGED <<price_data, signalVars, stockVars, screenVars, runVars, serviceVars,
                   lstmVars, laterVars>>

NextIndicators == CalculateTechnicalIndicators \/ CalculateComprehensiveTechnicalIndicators

SpecIndicators == InitIndicators /\ [][NextIndicators]_vars

\* the values of the groups of an indicators mapping
GroupValues(ind, groups) ==
    UNION {{ind[g][k] : k \in DOMAIN ind[g]} : g \in groups \cap DOMAIN ind}

\* some indicator of calculate_technical_indicators' answer is NaN
HasNaN(ind) ==
    \/ "nan" \in GroupValues(ind, DOMAIN ind \ {"rsi"})
    \/ get(ind, "rsi", "default") = "nan"

\* some indicator of the comprehensive answer is NaN
HasNaNComprehensive(ind) == "nan" \in GroupValues(ind, DOMAIN ind)

\* C21: the indicator computation never raises for a short price series
\* (fewer than 20 bars, a single bar, or none): it returns, with a
\* neutral/default value for every indicator that could not be computed.
C21_ShortSeriesDegrade ==
    (price_data # Unset /\ price_data.len < 20) =>
        /\ indicators # Unset => ~HasNaN(indicators)
        /\ technical_indicators # Unset =>
              /\ ~technical_indicators.raised
              /\ ~HasNaNComprehensive(technical_indicators.value)


(***************************************************************************)
(* The shape of a completed result                                         *)
(***************************************************************************)
\* analyze_complete_flow returned its success mapping
Completed == pc = "done" /\ result.success

\* result[key].get(field, []) of a completed result, [] when key is missing
ResultList(key, field) == get(get(result, key, EmptyDict), field, <<>>)

\* C22: a completed analyze_complete_flow result contains layer1_analysis, a
\* layer2_analysis whose selected_stocks is non-empty, a layer3_analysis whose
\* final_recommendations is non-empty, and final_recommendations whose
\* top_picks is non-empty.
C22_CompletedResultShape ==
    Completed =>
        /\ "layer1_analysis" \in DOMAIN result
        /\ "layer2_analysis" \in DOMAIN result
        /\ ResultList("layer2_analysis", "selected_stocks") # <<>>
        /\ "layer3_analysis" \in DOMAIN result
        /\ ResultList("layer3_analysis", "final_recommendations") # <<>>
        /\ "final_recommendations" \in DOMAIN result
        /\ ResultList("final_recommendations", "top_picks") # <<>>

\* C30: the options_strategies of the final recommendations are the first (up
\* to 3) of the strategies recommended by the options layer in the same run,
\* so they are empty only when that layer recommended no strategy.
C30_OptionsFromLayer4 ==
    Completed =>
        /\ result.final_recommendations.options_strategies
              = Take(layer4_result.recommended_strategies, 3)
        /\ result.final_recommendations.options_strategies = <<>>
              => layer4_result.recommended_strategies = <<>>


(***************************************************************************)
(* The market phase and the figures the collector obtained                 *)
(***************************************************************************)
\* the collector answered with a sentiment index and a GDP figure
CollectedBoth ==
    /\ layer1_data # Unset
    /\ ~layer1_data.raises
    /\ "fear_greed" \in DOMAIN layer1_data.results.data_sources
    /\ "fred" \in DOMAIN layer1_data.results.data_sources

CollectedSentiment == layer1_data.results.data_sources.fear_greed.index_value
CollectedGdp       == layer1_data.results.data_sources.fred.gdp.value

\* C23: the market_phase produced by Layer 1 is determined by the sentiment
\* index and GDP growth obtained from the Layer-1 collector in that run: a
\* collected sentiment above 50 with GDP growth above 2.0 yields a bull phase
\* (bull_mid or bull_late), and a collected sentiment below 50 with GDP growth
\* below 2.0 yields bear or bear_recovery.
C23_PhaseFromCollected ==
    (CollectedBoth /\ layer1_result # Unset) =>
        /\ (CollectedSentiment > 50 /\ CollectedGdp > 20)
              => layer1_result.market_phase.phase \in {"bull_mid", "bull_late"}
        /\ (CollectedSentiment < 50 /\ CollectedGdp < 20)
              => layer1_result.market_phase.phase \in {"bear", "bear_recovery"}


(***************************************************************************)
(* The revenue-growth tier of the fundamentals sub-score                   *)
(***************************************************************************)
\* the figures of the scored stock, as the score builder reads them
ScoredGrowth    == IF get(provider.info, "revenueGrowth", 0) # 0
                   THEN provider.info.revenueGrowth ELSE 0
ScoredMinGrowth == get(strategy.screening_criteria, "min_revenue_growth", 5)
ScoredPe        == get(provider.info, "trailingPE", 0)
ScoredMaxPe     == get(strategy.screening_criteria, "max_pe_ratio", 30)
ScoredMargin    == IF get(provider.info, "profitMargins", 0) # 0
                   THEN provider.info.profitMargins ELSE 0

\* the points of the PE tier and of the profit-margin tier
PeTier ==
    IF 0 < ScoredPe /\ 2 * ScoredPe < ScoredMaxPe THEN 10
    ELSE IF 0 < ScoredPe /\ ScoredPe < ScoredMaxPe THEN 5 ELSE 0
MarginTier == IF ScoredMargin > 20 THEN 10 ELSE IF ScoredMargin > 10 THEN 5 ELSE 0

\* what the fundamentals sub-score holds beyond the PE and margin tiers
GrowthTier == scores.sb.fundamentals - PeTier - MarginTier

\* C24, as the spec states it: revenue growth of at least twice
\* min_revenue_growth earns +10 and growth of at least min_revenue_growth (but
\* less than twice) earns +5; a growth exactly equal to a threshold earns that
\* threshold's tier.
C24_Original ==
    scores # Unset =>
        /\ ScoredGrowth >= 2 * ScoredMinGrowth => GrowthTier = 10
        /\ (ScoredGrowth >= ScoredMinGrowth /\ ScoredGrowth < 2 * ScoredMinGrowth)
              => GrowthTier = 5

\* C24 amended: revenue growth strictly above twice min_revenue_growth earns
\* +10, growth strictly above min_revenue_growth (and at most twice) earns +5,
\* anything else earns nothing; a growth exactly equal to a threshold earns
\* the tier below that threshold.
C24_GrowthTiersStrict ==
    scores # Unset =>
        /\ ScoredGrowth > 2 * ScoredMinGrowth => GrowthTier = 10
        /\ (ScoredGrowth > ScoredMinGrowth /\ ScoredGrowth <= 2 * ScoredMinGrowth)
              => GrowthTier = 5
        /\ ScoredGrowth <= ScoredMinGrowth => GrowthTier = 0

\* a stock whose growth is exactly twice the minimum was scored +5, and
\* the same score builder gives nothing for a growth exactly at the minimum
C24_Witness ==
    /\ scores # Unset
    /\ ScoredGrowth = 2 * ScoredMinGrowth
    /\ GrowthTier = 5
    /\ FundamentalScore([revenueGrowth |-> 15], [min_revenue_growth |-> 15]) = 0


\* C25: for every combination of indicator and support/resistance inputs,
\* the accumulated signal_strength is an integer within [-6, +6].
C25_StrengthWithinSix ==
    trading_signals # Unset =>
        /\ trading_signals.signal_strength \in Int
        /\ 0 - 6 <= trading_signals.signal_strength
        /\ trading_signals.signal_strength <= 6

\* C25 amended: the accumulated signal_strength is an integer within
\* [-7, +8]: RSI, MACD, Bollinger position, moving averages and volume give
\* between -6 and +7, and the support/resistance levels add between -1 and +1.
C25_StrengthWithinBounds ==
    trading_signals # Unset =>
        /\ trading_signals.signal_strength \in Int
        /\ 0 - 7 <= trading_signals.signal_strength
        /\ trading_signals.signal_strength <= 8

\* every signal fired towards buying: the strength is 8
C25_Witness ==
    /\ trading_signals # Unset
    /\ trading_signals.signal_strength = 8
    /\ Len(trading_signals.signals) = 6


(***************************************************************************)
(* The technical stages over a list of symbols:                            *)
(* src/integrated_analyzer.py _analyze_technical_signals and               *)
(* src/layer3_collector.py get_technical_analysis.  What the provider and  *)
(* the analysis do for a symbol is drawn beforehand: the fetch or the      *)
(* analysis raises, the history has fewer than 50 bars, or the analysis    *)
(* succeeds with a technical score.                                        *)
(***************************************************************************)
focus_stocks == <<"AAPL", "MSFT", "GOOGL", "AMZN", "TSLA", "NVDA", "META", "NFLX">>

SymbolOutcomes ==
    {[kind |-> "raises"], [kind |-> "short"],
     [kind |-> "ok", technical_score |-> 40], [kind |-> "ok", technical_score |-> 80]}

RECURSIVE InsertByRating(_, _)
\* insert x behind every element whose final_rating is at least x's
InsertByRating(sorted, x) ==
    IF sorted = <<>> THEN <<x>>
    ELSE IF Head(sorted).final_rating >= x.final_rating
         THEN <<Head(sorted)>> \o InsertByRating(Tail(sorted), x)
         ELSE <<x>> \o sorted

RECURSIVE SortByRating(_, _)
\* list.sort(key=final_rating, reverse=True): stable, descending
SortByRating(q, acc) ==
    IF q = <<>> THEN acc ELSE SortByRating(Tail(q), InsertByRating(acc, Head(q)))

\* the entry appended for a stock whose analysis succeeded
FinalStock(stock, technical_score) ==
    stock @@ [technical_score |-> technical_score,
              final_rating    |-> _calculate_final_rating(stock.total_score, technical_score)]

\* the stocks of the list that get an entry when nothing raises
AnalysedStocks(selected, outcome) ==
    LET enough == SelectSeq(selected, LAMBDA s : outcome[s.symbol].kind = "ok")
    IN  [i \in 1..Len(enough) |->
            FinalStock(enough[i], outcome[enough[i].symbol].technical_score)]

\* one try block around the whole loop: an exception for any symbol ends the
\* stage with the fallback answer
_analyze_technical_signals(selected, outcome) ==
    IF \E i \in 1..Len(selected) : outcome[selected[i].symbol].kind = "raises"
    THEN [final_recommendations |-> <<>>, error |-> "failed"]
    ELSE [final_recommendations |->
              Take(SortByRating(AnalysedStocks(selected, outcome), <<>>), 5)]

_get_mock_technical_data ==
    <<[symbol |-> "AAPL", mock |-> TRUE], [symbol |-> "MSFT", mock |-> TRUE],
      [symbol |-> "GOOGL", mock |-> TRUE]>>

\* a try block per symbol: a failing symbol is skipped; mock data when no
\* symbol was analysed
get_technical_analysis(outcome) ==
    LET symbols == Take(focus_stocks, 5)
        done    == SelectSeq(symbols, LAMBDA s : outcome[s].kind = "ok")
        analysis_results == [i \in 1..Len(done) |-> [symbol |-> done[i], mock |-> FALSE]]
        analysis == IF analysis_results = <<>> THEN _get_mock_technical_data
                    ELSE analysis_results
    IN  [success |-> TRUE, analysis |-> analysis, total_analyzed |-> Len(analysis)]

Shortlists ==
    {<<Candidate("AAPL", "Technology", 70), Candidate("MSFT", "Technology", 65),
       Candidate("GOOGL", "Technology", 60)>>,
     <<Candidate("TSLA", "Consumer", 62), Candidate("AMZN", "Consumer", 75)>>,
     <<Candidate("MSFT", "Technology", 65)>>}

InitTechnical ==
    /\ StockIdle
    /\ ScreenIdle
    /\ RunIdle
    /\ ServiceIdle
    /\ LstmIdle
    /\ SignalIdle
    /\ IndicIdle
    /\ FetchIdle
    /\ PredictorIdle
    /\ shortlist \in Shortlists
    /\ symbol_outcomes \in [SeqToSet(Take(focus_stocks, 5)) -> SymbolOutcomes]
    /\ layer3_stage = Unset
    /\ technical_report = Unset

AnalyzeTechnicalSignals ==
    /\ layer3_stage = Unset
    /\ layer3_stage' = _analyze_technical_signals(shortlist, symbol_outcomes)
    /\ UNCHANGED <<shortlist, symbol_outcomes, technical_report, fetchVars, predictorVars,
                   stockVars, screenVars, runVars, serviceVars, lstmVars, signalVars,
                   indicVars>>

GetTechnicalAnalysis ==
    /\ technical_report = Unset
    /\ technical_report' = get_technical_analysis(symbol_outcomes)
    /\ UNCHANGED <<shortlist, symbol_outcomes, layer3_stage, fetchVars, predictorVars,
                   stockVars, screenVars, runVars, serviceVars, lstmVars, signalVars,
                   indicVars>>

NextTechnical == AnalyzeTechnicalSignals \/ GetTechnicalAnalysis

SpecTechnical == InitTechnical /\ [][NextTechnical]_vars

\* the symbols of the shortlist whose fetch and analysis succeed
ShortlistOk ==
    {shortlist[i].symbol : i \in {j \in 1..Len(shortlist) :
                                     symbol_outcomes[shortlist[j].symbol].kind = "ok"}}

\* C26: in the Layer-3 technical-signal stage, a failure while fetching or
\* analysing one shortlisted symbol skips only that symbol: the remaining
\* shortlisted symbols are still analysed and appear in final_recommendations.
C26_FailureSkipsOnlyThatSymbol ==
    layer3_stage # Unset =>
        ShortlistOk \subseteq SeqToSet(SymbolsOf(layer3_stage.final_recommendations))


(***************************************************************************)
(* What the 'latest' endpoints answer                                      *)
(***************************************************************************)
\* a 'latest' request has its answer and still holds the lock
Answering(h) ==
    /\ request[h].pc = "release"
    /\ request[h].op = "latest"

\* a collect request is about to answer success False
CollectFailed(h) ==
    /\ request[h].pc = "respond"
    /\ request[h].op = "collect"
    /\ ~request[h].response.success

\* C27: for each layer and under any interleaving of requests, the 'latest'
\* endpoint answers success=false (no data) exactly when no collect request
\* for that layer has yet stored a payload since process start; otherwise it
\* returns the complete payload of the collect that most recently stored one,
\* and a collect request that fails leaves the stored payload unchanged.
C27_LatestIsLastStored ==
    \A h \in Handlers :
        /\ Answering(h) =>
              IF last_stored[request[h].layer] = NothingStored
              THEN request[h].response = [success |-> FALSE]
              ELSE request[h].response =
                      [success |-> TRUE,
                       data |-> Collected(last_stored[request[h].layer])]
        /\ CollectFailed(h) => ~get(request[h], "stored", FALSE)


(***************************************************************************)
(* BaseScraper.get_page (src/scrapers/base_scraper.py)                     *)
(***************************************************************************)

\* Config.MAX_RETRIES (src/config.py line 17)
MAX_RETRIES == 3

\* the keys of Config.URLS
URLS == {"macromicro_gdp", "macromicro_cpi", "cnn_fear_greed",
         "cme_fedwatch", "investing_nonfarm"}

\* what one pass through the try block of _get_page_requests does:
\* the page is parsed, a requests.RequestException is raised (by session.get
\* or raise_for_status), or some other exception is raised
AttemptOutcomes == {"ok", "request_error", "other_error"}

\* what the try block of _get_page_selenium does
SeleniumOutcomes == {"ok", "other_error"}

\* BeautifulSoup(response.content, 'html.parser') of the given attempt;
\* attempt 0 is the browser's page
Page(url, attempt) == [kind |-> "page", url |-> url, attempt |-> attempt]

\* variant: the last failure is retried as well
Retry_always(attempt) == attempt < MAX_RETRIES

\* if attempt < Config.MAX_RETRIES - 1: sleep and go round again, else: raise
\* (attempt counts from 0)
Retry(attempt) == attempt < MAX_RETRIES - 1

\* the except clause of get_page: whatever the fetch raised, answer None
get_page(inner) == IF inner.raised THEN Returns(None) ELSE inner

\* get_page(url, use_selenium) is called on a scraper that is not fetching
GetPage(url, selenium) ==
    /\ fetch_pc \in {"idle", "done"}
    /\ fetch_url' = url
    /\ use_selenium' = selenium
    /\ attempts' = <<>>
    /\ fetched' = Unset
    /\ fetch_pc' = IF selenium /\ selenium_available THEN "selenium" ELSE "attempt"
    /\ UNCHANGED selenium_available

\* one pass of the for loop of _get_page_requests
Attempt(outcome) ==
    /\ fetch_pc = "attempt"
    /\ attempts' = Append(attempts, outcome)
    /\ CASE outcome = "ok" ->
              /\ fetched' = get_page(Returns(Page(fetch_url, Len(attempts) + 1)))
              /\ fetch_pc' = "done"
         [] outcome = "request_error" /\ Retry(Len(attempts)) ->
              /\ fetched' = fetched
              /\ fetch_pc' = "backoff"
         [] outcome = "request_error" /\ ~Retry(Len(attempts)) ->
              /\ fetched' = get_page(Raises("RequestException"))
              /\ fetch_pc' = "done"
         [] outcome = "other_error" ->
              /\ fetched' = get_page(Raises("Exception"))
              /\ fetch_pc' = "done"
    /\ UNCHANGED <<fetch_url, use_selenium, selenium_available>>

\* time.sleep(2 ** attempt), then the next pass
Backoff ==
    /\ fetch_pc = "backoff"
    /\ fetch_pc' = "attempt"
    /\ UNCHANGED <<fetch_url, use_selenium, selenium_available, attempts, fetched>>

\* _get_page_selenium: one load in the browser, every exception re-raised
GetPageSelenium(outcome) ==
    /\ fetch_pc = "selenium"
    /\ fetched' = IF outcome = "ok"
                  THEN get_page(Returns(Page(fetch_url, 0)))
                  ELSE get_page(Raises("Exception"))
    /\ fetch_pc' = "done"
    /\ UNCHANGED <<fetch_url, use_selenium, selenium_available, attempts>>

\* a scraper after __init__, in a process with or without selenium
InitFetch ==
    /\ StockIdle /\ ScreenIdle /\ RunIdle
    /\ ServiceIdle /\ LstmIdle /\ SignalIdle /\ IndicIdle
    /\ TechIdle /\ PredictorIdle
    /\ fetch_pc = "idle"
    /\ fetch_url = "none"
    /\ use_selenium = FALSE
    /\ selenium_available \in BOOLEAN
    /\ attempts = <<>>
    /\ fetched = Unset

\* the steps of a fetch that is under way
FetchStep ==
    \/ \E outcome \in AttemptOutcomes : Attempt(outcome)
    \/ Backoff
    \/ \E outcome \in SeleniumOutcomes : GetPageSelenium(outcome)

NextFetch ==
    /\ \/ \E url \in URLS, selenium \in BOOLEAN : GetPage(url, selenium)
       \/ FetchStep
    /\ UNCHANGED <<stockVars, screenVars, runVars, serviceVars, lstmVars,
                   signalVars, indicVars, techVars, predictorVars>>

\* the statements of get_page run one after the other until it returns
SpecFetch == InitFetch /\ [][NextFetch]_vars /\ WF_vars(NextFetch /\ fetch_pc # "done")

\* the attempts made so far all raised a RequestException
AllRequestErrors(n) ==
    /\ Len(attempts) = n
    /\ \A i \in 1..n : attempts[i] = "request_error"

\* at most MAX_RETRIES attempts, and only the last one can be other than a
\* RequestException
AttemptsBounded ==
    /\ Len(attempts) <= MAX_RETRIES
    /\ \A i \in 1..(Len(attempts) - 1) : attempts[i] = "request_error"

\* get_page returned: it never raises; over requests it answers the page of
\* the first attempt that succeeded, None otherwise
FetchAnswered ==
    fetch_pc = "done" =>
        /\ ~fetched.raised
        /\ (attempts # <<>> /\ attempts[Len(attempts)] = "ok")
              => fetched.value = Page(fetch_url, Len(attempts))
        /\ AllRequestErrors(MAX_RETRIES) => fetched.value = None
        /\ (attempts # <<>> /\ attempts[Len(attempts)] # "ok")
              => fetched.value = None

\* C28: a page fetch terminates after at most MAX_RETRIES (3) HTTP attempts:
\* it returns the page of the first attempt that succeeds, and after
\* MAX_RETRIES consecutive request failures get_page returns None without
\* raising.
C28_FetchBounded ==
    /\ [](AttemptsBounded /\ FetchAnswered)
    /\ (fetch_pc # "idle") ~> (fetch_pc = "done")

\* the third attempt failed like the two before it and get_page answered None
C28_Witness ==
    /\ fetch_pc = "done"
    /\ AllRequestErrors(MAX_RETRIES)
    /\ fetched = Returns(None)


(***************************************************************************)
(* The life of an LSTMStockPredictor (src/ai_models/lstm_predictor.py)     *)
(***************************************************************************)

\* calls made on the instance in one behaviour
MaxCalls == 3

\* where train() raises: nowhere; before the scaler is fitted (download,
\* too little data, prepare_features); or after self.model was assigned
\* (model.fit, the evaluation)
TrainFailures == {"none", "before_fit_transform", "after_build_model"}

\* where load_model() raises: nowhere, loading the Keras model, or loading
\* the scaler
LoadFailures == {"none", "model_file", "scaler_file"}

\* NotFittedError derives from ValueError
IsValueError(outcome) ==
    outcome.raised /\ outcome.value.error \in {"ValueError", "NotFittedError"}

Called(op, outcome) == [op |-> op, outcome |-> outcome]

\* train(symbol)
Train(failure) ==
    /\ Len(calls) < MaxCalls
    /\ lstm_scaler' = IF failure = "before_fit_transform" THEN lstm_scaler ELSE "fitted"
    /\ lstm_model' = CASE failure = "before_fit_transform" -> lstm_model
                       [] failure = "after_build_model" -> "built"
                       [] failure = "none" -> "trained"
    /\ calls' = Append(calls, Called("train", IF failure = "none"
                                              THEN Returns("results")
                                              ELSE Raises("Exception")))

\* load_model(filepath)
LoadModel(failure) ==
    /\ Len(calls) < MaxCalls
    /\ lstm_model' = IF failure = "model_file" THEN lstm_model ELSE "loaded"
    /\ lstm_scaler' = IF failure = "none" THEN "loaded" ELSE lstm_scaler
    /\ calls' = Append(calls, Called("load_model", IF failure = "none"
                                                   THEN Returns(None)
                                                   ELSE Raises("Exception")))

\* predict(symbol): the guard, then scaler.transform, then the prediction
Predict ==
    /\ Len(calls) < MaxCalls
    /\ calls' = Append(calls, Called("predict",
                    CASE lstm_model = "None" -> Raises("ValueError")
                      [] lstm_model # "None" /\ lstm_scaler = "fresh" ->
                            Raises("NotFittedError")
                      [] OTHER -> Returns("prediction")))
    /\ UNCHANGED <<lstm_model, lstm_scaler>>

\* save_model(filepath): the guard, then both files are written
SaveModel ==
    /\ Len(calls) < MaxCalls
    /\ calls' = Append(calls, Called("save_model",
                    IF lstm_model = "None" THEN Raises("ValueError")
                                           ELSE Returns(None)))
    /\ UNCHANGED <<lstm_model, lstm_scaler>>

InitPredictor ==
    /\ StockIdle /\ ScreenIdle /\ RunIdle
    /\ ServiceIdle /\ LstmIdle /\ SignalIdle /\ IndicIdle
    /\ TechIdle /\ FetchIdle
    /\ PredictorIdle

NextPredictor ==
    /\ \/ \E failure \in TrainFailures : Train(failure)
       \/ \E failure \in LoadFailures : LoadModel(failure)
       \/ Predict
       \/ SaveModel
    /\ UNCHANGED <<stockVars, screenVars, runVars, serviceVars, lstmVars,
                   signalVars, indicVars, techVars, fetchVars>>

SpecPredictor == InitPredictor /\ [][NextPredictor]_vars

\* a train() or load_model() call completed before call i
CompletedBefore(i) ==
    \E j \in 1..(i - 1) :
        /\ calls[j].op \in {"train", "load_model"}
        /\ ~calls[j].outcome.raised

\* C29: on a predictor instance, predict() and save_model() raise ValueError
\* unless a train() or load_model() call has previously completed
\* successfully on that instance; a train() call that fails does not make
\* predict() or save_model() usable.
C29_UsableOnlyAfterSuccess ==
    \A i \in 1..Len(calls) :
        (calls[i].op \in {"predict", "save_model"} /\ ~CompletedBefore(i))
            => IsValueError(calls[i].outcome)

====
